---- MODULE Spec2Model ----
(***************************************************************************)
(* Asset tracker: the ledger (accounts, categories, transactions) behind   *)
(* the Home, Accounts and Categories pages, and the add-transaction form   *)
(* that turns one user intent into one or two row insertions.              *)
(*                                                                         *)
(* Texts are sequences of one-character strings.  Amounts are JavaScript   *)
(* numbers; the model keeps them as integers counted in units of 1/Scale.  *)
(***************************************************************************)
EXTENDS Integers, Sequences, FiniteSets, TLC

\* optional values: None is the empty tuple, Some(v) a one-element tuple;
\* a missing text (null) is the empty text and a missing id ('' or null) is 0
None == <<>>
Some(v) == <<v>>
NoId == 0

(* ------------------------------ bounds -------------------------------- *)
MaxTx == 2
MaxAccounts == 2
MaxCategories == 3

(* --------------------------- text helpers ----------------------------- *)
Digits == <<"0", "1", "2", "3", "4", "5", "6", "7", "8", "9">>
IsDigit(c) == \E i \in 1..10 : Digits[i] = c
DigitVal(c) == (CHOOSE i \in 1..10 : Digits[i] = c) - 1
IsSpace(c) == c = " "

Upper == <<"F", "R", "T">>
LowerOf == <<"f", "r", "t">>
\* ASCII case folding, as SQLite's NOCASE collation does it
ToLowerChar(c) == IF \E i \in 1..Len(Upper) : Upper[i] = c
                  THEN LowerOf[CHOOSE i \in 1..Len(Upper) : Upper[i] = c]
                  ELSE c
ToLower(s) == [i \in 1..Len(s) |-> ToLowerChar(s[i])]

RECURSIVE TrimStart(_)
TrimStart(s) == IF s # <<>> /\ IsSpace(Head(s)) THEN TrimStart(Tail(s)) ELSE s
RECURSIVE TrimEnd(_)
TrimEnd(s) == IF s # <<>> /\ IsSpace(s[Len(s)]) THEN TrimEnd(SubSeq(s, 1, Len(s) - 1)) ELSE s
\* String.prototype.trim
Trim(s) == TrimEnd(TrimStart(s))

\* t.replace(/c/g, '')
RemoveAll(s, c) == SelectSeq(s, LAMBDA x : x # c)
Includes(s, c) == \E i \in 1..Len(s) : s[i] = c
\* 1-based lastIndexOf; 0 when absent
LastIndexOf(s, c) == IF Includes(s, c) THEN CHOOSE i \in 1..Len(s) : s[i] = c /\ \A j \in (i+1)..Len(s) : s[j] # c ELSE 0
IndexOf(s, c) == IF Includes(s, c) THEN CHOOSE i \in 1..Len(s) : s[i] = c /\ \A j \in 1..(i-1) : s[j] # c ELSE 0
\* t.replace(c, d) with a string pattern: the first occurrence only
ReplaceFirst(s, c, d) == IF Includes(s, c) THEN [s EXCEPT ![IndexOf(s, c)] = d] ELSE s

AllDigits(s) == \A i \in 1..Len(s) : IsDigit(s[i])
RECURSIVE DigitsValue(_)
DigitsValue(s) == IF s = <<>> THEN 0 ELSE 10 * DigitsValue(SubSeq(s, 1, Len(s) - 1)) + DigitVal(s[Len(s)])
RECURSIVE Pow10(_)
Pow10(n) == IF n = 0 THEN 1 ELSE 10 * Pow10(n - 1)

\* String(n) for a non-negative integer
RECURSIVE NatToText(_)
NatToText(n) == IF n < 10 THEN <<Digits[n + 1]>> ELSE NatToText(n \div 10) \o <<Digits[(n % 10) + 1]>>
\* String(n).padStart(2, '0')
Pad2(n) == IF n < 10 THEN <<"0">> \o NatToText(n) ELSE NatToText(n)

(* ------------------------------ dates --------------------------------- *)
IsLeap(y) == (y % 4 = 0 /\ y % 100 # 0) \/ y % 400 = 0
\* m is a 0-based month index, as in the Date API
DaysInMonth(y, m) == IF m = 1 THEN (IF IsLeap(y) THEN 29 ELSE 28)
                     ELSE IF m \in {3, 5, 8, 10} THEN 30 ELSE 31

RECURSIVE NormDay(_, _, _)
NormDay(y, m, d) ==
  IF d < 1 THEN LET py == IF m = 0 THEN y - 1 ELSE y
                    pm == IF m = 0 THEN 11 ELSE m - 1
                IN NormDay(py, pm, d + DaysInMonth(py, pm))
  ELSE IF d > DaysInMonth(y, m)
       THEN NormDay(IF m = 11 THEN y + 1 ELSE y, IF m = 11 THEN 0 ELSE m + 1, d - DaysInMonth(y, m))
       ELSE [year |-> y, month |-> m, date |-> d]

\* new Date(year, monthIndex, day): two-digit years mean 19xx, out-of-range
\* months and days roll over into the neighbouring months and years
NewDate(year, monthIndex, day) ==
  LET yr == IF year \in 0..99 THEN 1900 + year ELSE year
  IN NormDay(yr + (monthIndex \div 12), monthIndex % 12, day)

toISO(dt) == NatToText(dt.year) \o <<"-">> \o Pad2(dt.month + 1) \o <<"-">> \o Pad2(dt.date)

\* /^(\d{2})\.(\d{2})\.(\d{4})$/
MatchesDateDE(t) ==
  /\ Len(t) = 10
  /\ t[3] = "." /\ t[6] = "."
  /\ \A i \in {1, 2, 4, 5, 7, 8, 9, 10} : IsDigit(t[i])

parseDateDEToISO(s) ==
  LET t == Trim(s) IN
  IF ~MatchesDateDE(t) THEN <<>>
  ELSE LET dd == DigitsValue(SubSeq(t, 1, 2))
           mm == DigitsValue(SubSeq(t, 4, 5))
           yyyy == DigitsValue(SubSeq(t, 7, 10))
           dt == NewDate(yyyy, mm - 1, dd)
       IN IF dt.year # yyyy \/ dt.month # mm - 1 \/ dt.date # dd THEN <<>> ELSE toISO(dt)

(* ----------------------------- amounts -------------------------------- *)
\* amounts are integers in units of 1/Scale
FracDigits == 3
Scale == Pow10(FracDigits)

\* Number(t) for a text over digits, sign, '.' and ',': the empty text is 0,
\* [+-]? ( digits [. digits*] | . digits+ ) is its value, everything else NaN.
\* Values are exact in units of 1/Scale; the texts the model types have at
\* most FracDigits digits after the point.
NumberOf(t) ==
  LET signed == t # <<>> /\ t[1] \in {"-", "+"}
      body == IF signed THEN Tail(t) ELSE t
      dot == IndexOf(body, ".")
      ip == IF dot = 0 THEN body ELSE SubSeq(body, 1, dot - 1)
      fp == IF dot = 0 THEN <<>> ELSE SubSeq(body, dot + 1, Len(body))
      ok == /\ AllDigits(ip) /\ AllDigits(fp)
            /\ Len(ip) + Len(fp) > 0
            /\ Len(fp) <= FracDigits
      mag == DigitsValue(ip) * Scale + DigitsValue(fp) * Pow10(FracDigits - Len(fp))
  IN IF t = <<>> THEN Some(0) ELSE IF ~ok THEN None ELSE IF signed /\ t[1] = "-" THEN Some(0 - mag) ELSE Some(mag)

\* /^[-+]?\d+[.]$/
UnfinishedDecimal(t) ==
  LET body == IF t # <<>> /\ t[1] \in {"-", "+"} THEN Tail(t) ELSE t
  IN Len(body) >= 2 /\ body[Len(body)] = "." /\ AllDigits(SubSeq(body, 1, Len(body) - 1))

\* variant: the comma is the decimal separator wherever it stands
parseAmountStringCommaOnly(s) ==
  LET t0 == RemoveAll(Trim(s), " ")
      hasC == Includes(t0, ",")
      t == IF hasC THEN ReplaceFirst(RemoveAll(t0, "."), ",", ".") ELSE t0
  IN IF t0 = <<>> THEN None
     ELSE IF UnfinishedDecimal(t) THEN None
     ELSE NumberOf(t)

\* parseAmountString: strip whitespace, settle the separators, refuse an
\* unfinished decimal, else Number(t) when finite
parseAmountString(s) ==
  LET t0 == RemoveAll(Trim(s), " ")
      hasC == Includes(t0, ",")
      hasD == Includes(t0, ".")
      t == IF hasC /\ hasD
           THEN (IF LastIndexOf(t0, ",") > LastIndexOf(t0, ".")
                 THEN ReplaceFirst(RemoveAll(t0, "."), ",", ".")
                 ELSE RemoveAll(t0, ","))
           ELSE IF hasC THEN ReplaceFirst(t0, ",", ".") ELSE t0
  IN IF t0 = <<>> THEN None
     ELSE IF UnfinishedDecimal(t) THEN None
     ELSE NumberOf(t)

\* /[-+]?\d+[.]?$/ has no anchor at the start: it finds a match in every
\* text that ends in a digit, or in a digit and a point
EndsInDigits(t) ==
  \/ Len(t) >= 1 /\ IsDigit(t[Len(t)])
  \/ Len(t) >= 2 /\ t[Len(t)] = "." /\ IsDigit(t[Len(t) - 1])

\* Number.parseFloat: the value of the longest prefix that is a decimal
\* literal, NaN when no prefix is one
ParseFloat(t) ==
  LET ks == {k \in 1..Len(t) : NumberOf(SubSeq(t, 1, k)) # None}
  IN IF ks = {} THEN None
     ELSE NumberOf(SubSeq(t, 1, CHOOSE k \in ks : \A j \in ks : j <= k))

\* parseDecimal
parseDecimal(input) ==
  LET s0 == RemoveAll(Trim(input), " ")
      hasComma == Includes(s0, ",")
      hasDot == Includes(s0, ".")
      s == IF hasComma /\ hasDot
           THEN (IF LastIndexOf(s0, ",") > LastIndexOf(s0, ".")
                 THEN ReplaceFirst(RemoveAll(s0, "."), ",", ".")
                 ELSE RemoveAll(s0, ","))
           ELSE IF hasComma THEN ReplaceFirst(s0, ",", ".") ELSE s0
  IN IF s0 = <<>> THEN None
     ELSE IF s = <<"-">> \/ EndsInDigits(s) THEN None
     ELSE ParseFloat(s)

\* Math.abs
Abs(n) == IF n < 0 THEN 0 - n ELSE n

\* n.toFixed(2).replace('.', ',')
toFixed2Comma(n) ==
  LET cents == (Abs(n) + (Scale \div 100) \div 2) \div (Scale \div 100)
      txt == NatToText(cents \div 100) \o <<",">> \o Pad2(cents % 100)
  IN IF n < 0 THEN <<"-">> \o txt ELSE txt

\* the digits of a whole number with a point before every group of three
RECURSIVE GroupThousands(_)
GroupThousands(t) ==
  IF Len(t) <= 3 THEN t
  ELSE GroupThousands(SubSeq(t, 1, Len(t) - 3)) \o <<".">> \o SubSeq(t, Len(t) - 2, Len(t))

\* n.toLocaleString('de-DE', { minimumFractionDigits: 2, maximumFractionDigits: 2 })
formatDE(n) ==
  LET cents == (Abs(n) + (Scale \div 100) \div 2) \div (Scale \div 100)
      txt == GroupThousands(NatToText(cents \div 100)) \o <<",">> \o Pad2(cents % 100)
  IN IF n < 0 THEN <<"-">> \o txt ELSE txt

\* formatDate: 'YYYY-MM-DD' -> 'dd.mm.yyyy'
formatDate(d) ==
  IF Len(d) >= 10 /\ d[5] = "-" /\ d[8] = "-" /\ \A i \in {1, 2, 3, 4, 6, 7, 9, 10} : IsDigit(d[i])
  THEN SubSeq(d, 9, 10) \o <<".">> \o SubSeq(d, 6, 7) \o <<".">> \o SubSeq(d, 1, 4)
  ELSE d

(* ------------------------- the store (backend) ------------------------ *)
\* db.accounts:     id -> [name, type]
\* db.categories:   id -> name
\* db.transactions: id -> [account_id, date, description, amount, category_id]
\* db.seq:          the AUTOINCREMENT counters of the three tables
EmptyDb == [accounts |-> <<>>, categories |-> <<>>, transactions |-> <<>>,
            seq |-> [acc |-> 1, cat |-> 1, tx |-> 1]]

RECURSIVE SumAmounts(_, _)
SumAmounts(txs, ids) ==
  IF ids = {} THEN 0
  ELSE LET i == CHOOSE x \in ids : TRUE IN txs[i].amount + SumAmounts(txs, ids \ {i})

TxOfAccount(d, a) == {i \in DOMAIN d.transactions : d.transactions[i].account_id = a}
TxOfCategory(d, c) == {i \in DOMAIN d.transactions : d.transactions[i].category_id = c}

\* balance is computed on read, never stored
balance(d, a) == SumAmounts(d.transactions, TxOfAccount(d, a))

\* list_accounts: every account with its computed balance
list_accounts(d) ==
  [a \in DOMAIN d.accounts |->
     [name |-> d.accounts[a].name, type |-> d.accounts[a].type, balance |-> balance(d, a)]]

CategoryName(d, c) == IF c \in DOMAIN d.categories THEN d.categories[c] ELSE <<>>

\* a transaction as the backend returns it: the row plus the category name
TxView(d, i) ==
  [id |-> i,
   account_id |-> d.transactions[i].account_id,
   date |-> d.transactions[i].date,
   description |-> d.transactions[i].description,
   amount |-> d.transactions[i].amount,
   category_id |-> d.transactions[i].category_id,
   category |-> CategoryName(d, d.transactions[i].category_id)]

\* list_transactions(limit): the newest rows, at most limit of them
list_transactions(d, limit) ==
  {TxView(d, i) : i \in {j \in DOMAIN d.transactions :
                           Cardinality({k \in DOMAIN d.transactions : k > j}) < limit}}

\* list_categories
list_categories(d) == d.categories

\* variant: the index compares names byte by byte
NoCaseEqualBinary(a, b) == a = b
\* name TEXT NOT NULL COLLATE NOCASE UNIQUE: the comparison the index uses
NoCaseEqual(a, b) == ToLower(a) = ToLower(b)
\* the UNIQUE index refuses a name some other row already has
UniqueViolation(cats, id, name) == \E c \in DOMAIN cats : c # id /\ NoCaseEqual(cats[c], name)

\* the category a free text stands for: none for an empty text, the existing
\* row when a name matches case-insensitively, else a row to be created
canonicalize(cats, text) ==
  LET t == Trim(text)
      hits == {c \in DOMAIN cats : NoCaseEqual(cats[c], t)}
  IN IF t = <<>> THEN [id |-> NoId, create |-> FALSE, name |-> t]
     ELSE IF hits # {} THEN [id |-> CHOOSE c \in hits : TRUE, create |-> FALSE, name |-> t]
     ELSE [id |-> NoId, create |-> TRUE, name |-> t]

\* variant: the trimmed text is taken as typed
canonicalizeCategoryAsTyped(input, options) == Trim(input)

\* canonicalizeCategory(input, options): '' for a blank text, else the first
\* option that equals the trimmed text without case, else the trimmed text
canonicalizeCategory(input, options) ==
  LET t == Trim(input)
      hits == {i \in 1..Len(options) : ToLower(options[i]) = ToLower(t)}
  IN IF t = <<>> THEN <<>>
     ELSE IF hits # {} THEN options[CHOOSE i \in hits : \A j \in hits : i <= j]
     ELSE t

\* the categories table after resolving a free text, and the id it resolved to
ResolveCategory(d, text) ==
  LET r == canonicalize(d.categories, text) IN
  IF ~r.create THEN [ok |-> TRUE, db |-> d, id |-> r.id]
  ELSE IF UniqueViolation(d.categories, NoId, r.name) THEN [ok |-> FALSE, db |-> d, id |-> NoId]
  ELSE [ok |-> TRUE, id |-> d.seq.cat,
        db |-> [d EXCEPT !.categories = (d.seq.cat :> r.name) @@ d.categories,
                         !.seq.cat = d.seq.cat + 1]]

\* account_id INTEGER NOT NULL REFERENCES accounts(id)
ForeignKeyOk(d, account_id) == account_id \in DOMAIN d.accounts

\* add_transaction: one row insertion
add_transaction(d, input) ==
  LET rc == ResolveCategory(d, input.category) IN
  IF ~ForeignKeyOk(d, input.account_id) \/ ~rc.ok THEN [ok |-> FALSE, db |-> d, id |-> NoId]
  ELSE [ok |-> TRUE, id |-> rc.db.seq.tx,
        db |-> [rc.db EXCEPT
                  !.transactions = (rc.db.seq.tx :>
                      [account_id |-> input.account_id, date |-> input.date,
                       description |-> input.description, amount |-> input.amount,
                       category_id |-> rc.id]) @@ rc.db.transactions,
                  !.seq.tx = rc.db.seq.tx + 1]]

Has(patch, field) == field \in DOMAIN patch

\* update_transaction: a field absent from the patch keeps its stored value
update_transaction(d, patch) ==
  IF patch.id \notin DOMAIN d.transactions THEN [ok |-> FALSE, db |-> d]
  ELSE
    LET old == d.transactions[patch.id]
        rc == IF Has(patch, "category") THEN ResolveCategory(d, patch.category)
              ELSE [ok |-> TRUE, db |-> d, id |-> old.category_id]
        acc == IF Has(patch, "account_id") THEN patch.account_id ELSE old.account_id
    IN IF ~rc.ok \/ ~ForeignKeyOk(d, acc) THEN [ok |-> FALSE, db |-> d]
       ELSE [ok |-> TRUE,
             db |-> [rc.db EXCEPT !.transactions[patch.id] =
                       [account_id |-> acc,
                        date |-> IF Has(patch, "date") THEN patch.date ELSE old.date,
                        description |-> IF Has(patch, "description") THEN patch.description ELSE old.description,
                        amount |-> IF Has(patch, "amount") THEN patch.amount ELSE old.amount,
                        category_id |-> rc.id]]]

Without(f, k) == [x \in DOMAIN f \ {k} |-> f[x]]

\* delete_transaction: unconditional
delete_transaction(d, id) == [d EXCEPT !.transactions = Without(d.transactions, id)]

\* the day the run takes place on (todayDE / date('now'))
Today == <<"2", "0", "2", "4", "-", "0", "1", "-", "1", "5">>
OpeningText == <<"O", "p", "e", "n", "i", "n", "g">>

\* add_account: the account row, plus one opening transaction when an opening
\* balance is supplied
add_account(d, input) ==
  LET a == d.seq.acc
      d1 == [d EXCEPT !.accounts = (a :> [name |-> input.name, type |-> input.account_type]) @@ d.accounts,
                      !.seq.acc = a + 1]
  IN IF input.initial_balance = 0 THEN d1
     ELSE [d1 EXCEPT !.transactions = (d1.seq.tx :>
                        [account_id |-> a, date |-> Today, description |-> OpeningText,
                         amount |-> input.initial_balance, category_id |-> NoId]) @@ d1.transactions,
                     !.seq.tx = d1.seq.tx + 1]

\* DELETE FROM accounts: REFERENCES accounts(id) ON DELETE CASCADE drops the
\* rows that reference the account
DeleteAccountRow(d, id) ==
  [d EXCEPT !.accounts = Without(d.accounts, id),
            !.transactions = [i \in DOMAIN d.transactions \ TxOfAccount(d, id) |-> d.transactions[i]]]

AccountInUse(d, id) == TxOfAccount(d, id) # {}

\* delete_account: refused while a transaction references the account
delete_account(d, id) ==
  IF AccountInUse(d, id) THEN [ok |-> FALSE, db |-> d]
  ELSE [ok |-> TRUE, db |-> DeleteAccountRow(d, id)]

\* DELETE FROM categories: REFERENCES categories(id) ON DELETE SET NULL
DeleteCategoryRow(d, id) ==
  [d EXCEPT !.categories = Without(d.categories, id),
            !.transactions = [i \in DOMAIN d.transactions |->
               IF d.transactions[i].category_id = id
               THEN [d.transactions[i] EXCEPT !.category_id = NoId]
               ELSE d.transactions[i]]]

CategoryInUse(d, id) == TxOfCategory(d, id) # {}

\* delete_category: refused while a transaction references the category
delete_category(d, id) ==
  IF CategoryInUse(d, id) THEN [ok |-> FALSE, db |-> d]
  ELSE [ok |-> TRUE, db |-> DeleteCategoryRow(d, id)]

\* add_category: INSERT INTO categories(name)
add_category(d, name) ==
  IF UniqueViolation(d.categories, NoId, name) THEN [ok |-> FALSE, db |-> d]
  ELSE [ok |-> TRUE,
        db |-> [d EXCEPT !.categories = (d.seq.cat :> name) @@ d.categories,
                         !.seq.cat = d.seq.cat + 1]]

\* update_category: UPDATE categories SET name = ? WHERE id = ?
update_category(d, id, name) ==
  IF id \notin DOMAIN d.categories \/ UniqueViolation(d.categories, id, name)
  THEN [ok |-> FALSE, db |-> d]
  ELSE [ok |-> TRUE, db |-> [d EXCEPT !.categories[id] = name]]

(* ------------------------------ state --------------------------------- *)
VARIABLES
  db,             \* the store
  page,           \* the mounted page: "home", "accounts", "categories" or "transactions"
  home,           \* Home: [accounts, tx, confirmTxId], as of its last refresh
  form,           \* TransactionAddRow: [busy, showErrors]
  pending,        \* rows the running submit has still to hand to onAdd
  sub,            \* the last submit: what was asked for and what was written
  accPage,        \* Accounts: [items, confirmId, errorMsg]
  catPage,        \* Categories: [items, confirmDeleteId, errorMsg]
  calc,           \* the last call of a function on its own: [fn, arg, out]
  txPage,         \* Transactions: filters, shown result, loading, requests in flight
  dels,           \* Home's delete dialog: the deleteTransaction calls of this opening
  catHook         \* useCategories: the names held and the list_categories requests

vars == <<db, page, home, form, pending, sub, accPage, catPage, calc, txPage, dels, catHook>>

(* ------------------------- what the user types ------------------------ *)
\* date texts: a calendar date, 31 February, 29 February of a common year,
\* a one-digit day and month, and the empty text
DateTexts ==
  { <<"1", "5", ".", "0", "1", ".", "2", "0", "2", "4">>,
    <<"3", "1", ".", "0", "2", ".", "2", "0", "2", "4">>,
    <<"2", "9", ".", "0", "2", ".", "2", "0", "2", "3">>,
    <<"1", ".", "1", ".", "2", "0", "2", "4">>,
    <<>> }
\* amount texts: empty, a lone sign, zero, zero with decimals, an unfinished
\* decimal, two separators, the same amount typed with either sign, and an
\* amount with three decimals
AmountTexts ==
  { <<>>, <<"-">>, <<"0">>, <<"0", ",", "0">>, <<"2", ".">>, <<"1", ",", "2", ",", "5">>,
    <<"2">>, <<"-", "2">>, <<",", "1", "1", "6">> }
NotesTexts == { <<>>, <<"n">> }
CategoryTexts == { <<>>, <<" ">>, <<"F">>, <<"f">> }
CategoryNames == { <<>>, <<"F">>, <<"f">>, <<"R">> }
\* the accounts the user creates: a standard one and a reimbursable one
AccountInputs == { [name |-> <<"A">>, type |-> "standard"],
                   [name |-> <<"B">>, type |-> "reimbursable"] }
OpeningTexts == { <<>>, <<"-">>, <<"2">> }
TransferCategory == <<"T", "r", "a", "n", "s", "f", "e", "r">>

\* the parsers applied to every text the user can type
DateOf == [t \in DateTexts |-> parseDateDEToISO(t)]
AmountOf == [t \in AmountTexts |-> parseAmountString(t)]

(* ------------------------ TransactionAddRow --------------------------- *)
TxTypes == { "income", "transfer", "expense" }

\* the form's fields at submit time; an account field left empty is NoId
FormFields(txType, dateDE, amountStr, notes, category, accountId, reimId, srcId, dstId) ==
  [txType |-> txType, dateDE |-> dateDE, amountStr |-> amountStr, notes |-> notes,
   category |-> category, accountId |-> accountId, reimId |-> reimId,
   srcId |-> srcId, dstId |-> dstId]

catMissing(f) == f.txType # "transfer" /\ Len(Trim(f.category)) = 0
dateMissing(f) == DateOf[f.dateDE] = <<>>
amountInvalid(f) == AmountOf[f.amountStr] = None \/ AmountOf[f.amountStr][1] = 0
\* variant: a transfer may name one account twice
accountsInvalidAllowsSame(f) ==
  IF f.txType = "transfer"
  THEN f.srcId = NoId \/ f.dstId = NoId
  ELSE f.accountId = NoId
accountsInvalid(f) ==
  IF f.txType = "transfer"
  THEN f.srcId = NoId \/ f.dstId = NoId \/ f.srcId = f.dstId
  ELSE f.accountId = NoId

canSubmit(f) ==
  ~dateMissing(f) /\ ~amountInvalid(f) /\ ~accountsInvalid(f)
    /\ (f.txType = "transfer" \/ ~catMissing(f))

\* accounts.find(a => a.id === id)?.name ?? String(id)
AccountLabel(accs, id) == IF id \in DOMAIN accs THEN accs[id].name ELSE NatToText(id)

\* notes.trim() || null
NotesOrNull(notes) == Trim(notes)

\* (notes.trim() ? `${notes.trim()} ` : '') + `[${src} -> ${dst}]`
TransferDescription(accs, f) ==
  (IF Trim(f.notes) # <<>> THEN Trim(f.notes) \o <<" ">> ELSE <<>>)
    \o <<"[">> \o AccountLabel(accs, f.srcId) \o <<" ", "-", ">", " ">>
    \o AccountLabel(accs, f.dstId) \o <<"]">>

NewTransaction(account_id, date, description, amount, category) ==
  [account_id |-> account_id, date |-> date, description |-> description,
   amount |-> amount, category |-> category]

\* variant: the income row keeps the typed sign
IncomeAmountAsTyped(amt) == amt
\* the amount an income row carries
IncomeAmount(amt) == Abs(amt)
\* the amount an expense row carries
ExpenseAmount(amt) == 0 - Abs(amt)
\* the amounts of a transfer's debit and credit rows
TransferDebit(amt) == 0 - Abs(amt)
\* variant: the credit row keeps the typed sign
TransferCreditAsTyped(amt) == amt
TransferCredit(amt) == Abs(amt)

\* variant: any chosen reimbursable account gets a mirror row
WantsMirrorAnyChoice(f) == f.reimId # NoId
\* the mirror row is written when a reimbursable account is chosen and it is
\* not the primary account
WantsMirror(f) == f.reimId # NoId /\ f.reimId # f.accountId

\* the rows onSubmit hands to onAdd, in order
SubmitRows(accs, f) ==
  LET iso == DateOf[f.dateDE]
      amt == AmountOf[f.amountStr][1]
  IN IF f.txType = "income" THEN
       <<NewTransaction(f.accountId, iso, NotesOrNull(f.notes), IncomeAmount(amt), Trim(f.category))>>
       \o (IF WantsMirror(f)
           THEN <<NewTransaction(f.reimId, iso, NotesOrNull(f.notes), IncomeAmount(amt), Trim(f.category))>>
           ELSE <<>>)
     ELSE IF f.txType = "transfer" THEN
       << NewTransaction(f.srcId, iso, TransferDescription(accs, f), TransferDebit(amt), TransferCategory),
          NewTransaction(f.dstId, iso, TransferDescription(accs, f), TransferCredit(amt), TransferCategory) >>
     ELSE
       <<NewTransaction(f.accountId, iso, NotesOrNull(f.notes), ExpenseAmount(amt), Trim(f.category))>>
       \o (IF WantsMirror(f)
           THEN <<NewTransaction(f.reimId, iso, NotesOrNull(f.notes), ExpenseAmount(amt), Trim(f.category))>>
           ELSE <<>>)

\* what the ledger contract calls invalid input, stated without the form's
\* own predicates: the calendar rule is spelled out here
ValidCalendarDate(text) ==
  LET t == Trim(text) IN
  /\ MatchesDateDE(t)
  /\ DigitsValue(SubSeq(t, 4, 5)) \in 1..12
  /\ DigitsValue(SubSeq(t, 1, 2)) \in
       1..DaysInMonth(DigitsValue(SubSeq(t, 7, 10)), DigitsValue(SubSeq(t, 4, 5)) - 1)
DateValid == [t \in DateTexts |-> ValidCalendarDate(t)]
InvalidInput(f) ==
  \/ ~DateValid[f.dateDE]
  \/ AmountOf[f.amountStr] \in {None, Some(0)}
  \/ f.txType = "transfer" /\ (f.srcId = NoId \/ f.dstId = NoId \/ f.srcId = f.dstId)
  \/ f.txType # "transfer" /\ (f.accountId = NoId \/ Trim(f.category) = <<>>)

(* ------------------------------- Home --------------------------------- *)
HomeLimit == 12
HomeUnmounted == [accounts |-> <<>>, tx |-> {}, confirmTxId |-> NoId]
\* refresh: both lists are read again and replace the page's copies
refresh(d, h) == [h EXCEPT !.accounts = list_accounts(d), !.tx = list_transactions(d, HomeLimit)]

\* the record of the last submit: the intent (type, accounts, typed amount),
\* whether the contract calls the input invalid, the state of the handler, the
\* number of onAdd calls, the rows the store accepted, and for a transfer the
\* sum of the two balances when it started
NoSubmit == [status |-> "none", txType |-> "none", account |-> NoId, other |-> NoId,
             amt |-> 0, rows |-> 0, invalid |-> FALSE, calls |-> 0, written |-> <<>>,
             before |-> 0]

\* the ids the autoincrement counters may still hand out
TxBudget(d) == MaxTx + 1 - d.seq.tx
WithinBounds(d) == d.seq.tx <= MaxTx + 1 /\ d.seq.cat <= MaxCategories + 1 /\ d.seq.acc <= MaxAccounts + 1

\* onSubmit up to its first await: validation, then setBusy(true)
onSubmit(f) ==
  /\ page = "home"
  /\ ~form.busy
  /\ IF ~canSubmit(f) \/ DateOf[f.dateDE] = <<>>
        \/ AmountOf[f.amountStr] = None \/ AmountOf[f.amountStr][1] = 0
     THEN /\ form' = [form EXCEPT !.showErrors = TRUE]
          /\ sub' = [NoSubmit EXCEPT !.status = "rejected", !.invalid = InvalidInput(f)]
          /\ UNCHANGED pending
     ELSE /\ Len(SubmitRows(home.accounts, f)) <= TxBudget(db)
          /\ form' = [form EXCEPT !.busy = TRUE]
          /\ pending' = SubmitRows(home.accounts, f)
          /\ sub' = [status |-> "running", txType |-> f.txType,
                     account |-> IF f.txType = "transfer" THEN f.srcId ELSE f.accountId,
                     other |-> IF f.txType = "transfer" THEN f.dstId ELSE f.reimId,
                     amt |-> AmountOf[f.amountStr][1],
                     rows |-> Len(SubmitRows(home.accounts, f)),
                     invalid |-> InvalidInput(f), calls |-> 0, written |-> <<>>,
                     before |-> IF f.txType = "transfer"
                                THEN balance(db, f.srcId) + balance(db, f.dstId) ELSE 0]
  /\ UNCHANGED <<db, page, home, accPage, catPage, calc, txPage, dels, catHook>>

\* the options of the account pickers: '' or an account of the list
AccountOptions == {NoId} \cup DOMAIN home.accounts
\* the reimbursable picker lists the reimbursable accounts only
ReimbursableOptions == {NoId} \cup {a \in DOMAIN home.accounts : home.accounts[a].type = "reimbursable"}

\* an income or expense submit with texts drawn from the given sets
SubmitMovementOver(dates, amounts, notesSet, cats) ==
  \E txType \in {"income", "expense"}, dateDE \in dates, amountStr \in amounts,
     notes \in notesSet, category \in cats,
     accountId \in AccountOptions, reimId \in ReimbursableOptions :
    onSubmit(FormFields(txType, dateDE, amountStr, notes, category, accountId, reimId, NoId, NoId))

\* a transfer submit with texts drawn from the given sets
SubmitTransferOver(dates, amounts, notesSet) ==
  \E dateDE \in dates, amountStr \in amounts, notes \in notesSet,
     srcId \in AccountOptions, dstId \in AccountOptions :
    onSubmit(FormFields("transfer", dateDE, amountStr, notes, <<>>, NoId, NoId, srcId, dstId))

\* the texts typed into the add form: a good date, a date the calendar does
\* not have and none; no amount, zero, an unfinished decimal and an amount
\* with either sign; a category, a blank one and none
FormDates == { <<"1", "5", ".", "0", "1", ".", "2", "0", "2", "4">>,
               <<"3", "1", ".", "0", "2", ".", "2", "0", "2", "4">>, <<>> }
FormAmounts == { <<>>, <<"0">>, <<"2", ".">>, <<"2">>, <<"-", "2">> }
FormCategories == { <<>>, <<" ">>, <<"F">> }
SubmitMovement == SubmitMovementOver(FormDates, FormAmounts, NotesTexts, FormCategories)
SubmitTransfer == SubmitTransferOver(FormDates, FormAmounts, NotesTexts)

\* the same submits with one text of each kind: a good and a bad date, the
\* amount with either sign and no amount, a category and none
FewDates == { <<"1", "5", ".", "0", "1", ".", "2", "0", "2", "4">>, <<>> }
FewAmounts == { <<>>, <<"2">>, <<"-", "2">> }
FewNotes == { <<>> }
FewCategories == { <<>>, <<"F">> }
SubmitMovementFew == SubmitMovementOver(FewDates, FewAmounts, FewNotes, FewCategories)
SubmitTransferFew == SubmitTransferOver(FewDates, FewAmounts, FewNotes)

\* an income or expense of 2 in category F on the good date
SubmitMovementPlain ==
  SubmitMovementOver({ <<"1", "5", ".", "0", "1", ".", "2", "0", "2", "4">> }, { <<"2">> },
                     { <<>> }, { <<"F">> })

(* --------------------------- useCategories ---------------------------- *)
\* refresh of the hook: list_categories is invoked and its response awaited
StartRefresh(h) ==
  [h EXCEPT !.started = @ + 1, !.requests = @ \cup {[seq |-> h.started + 1, rows |-> None]}]
\* invalidateCategories: the window event makes every mounted hook refresh;
\* the rows written before it are announced by it
Invalidated(h) == IF h.mounted THEN StartRefresh([h EXCEPT !.unannounced = 0]) ELSE h
\* a row reached the ledger and no invalidation followed it yet
Written(h) == IF h.mounted THEN [h EXCEPT !.unannounced = @ + 1] ELSE h

\* handleAddTx for the next row of the running submit: add_transaction, then
\* refresh; after the last row onSubmit invalidates the categories, resets
\* the form and clears busy
OnAddOk ==
  /\ form.busy /\ pending # <<>>
  /\ LET r == add_transaction(db, Head(pending)) IN
       /\ r.ok
       /\ WithinBounds(r.db)
       /\ db' = r.db
       /\ home' = refresh(r.db, home)
       /\ pending' = Tail(pending)
       /\ sub' = [sub EXCEPT !.calls = @ + 1,
                             !.written = Append(@, TxView(r.db, r.id)),
                             !.status = IF Tail(pending) = <<>> THEN "done" ELSE "running"]
       /\ form' = IF Tail(pending) = <<>> THEN [busy |-> FALSE, showErrors |-> FALSE] ELSE form
       /\ catHook' = IF Tail(pending) = <<>> THEN Invalidated(catHook) ELSE Written(catHook)
  /\ UNCHANGED <<page, accPage, catPage, calc, txPage, dels>>

\* add_transaction rejects (the store failed, or a constraint refused the
\* row): the exception leaves onSubmit through finally, which clears busy
OnAddFail ==
  /\ form.busy /\ pending # <<>>
  /\ pending' = <<>>
  /\ form' = [form EXCEPT !.busy = FALSE]
  /\ sub' = [sub EXCEPT !.calls = @ + 1, !.status = "failed"]
  /\ UNCHANGED <<db, page, home, accPage, catPage, calc, txPage, dels, catHook>>

\* requestDeleteTx: the trash icon of a listed row opens the dialog
requestDeleteTx(id) ==
  /\ page = "home" /\ home.confirmTxId = NoId
  /\ id \in {t.id : t \in home.tx}
  /\ home' = [home EXCEPT !.confirmTxId = id]
  /\ UNCHANGED <<db, page, form, pending, sub, accPage, catPage, calc, txPage, dels, catHook>>

\* confirmDeleteTx: delete, close the dialog, refresh
confirmDeleteTx ==
  /\ page = "home" /\ home.confirmTxId # NoId
  /\ db' = delete_transaction(db, home.confirmTxId)
  /\ home' = refresh(db', [home EXCEPT !.confirmTxId = NoId])
  /\ UNCHANGED <<page, form, pending, sub, accPage, catPage, calc, txPage, dels, catHook>>

\* the dialog's onCancel
cancelDeleteTx ==
  /\ page = "home" /\ home.confirmTxId # NoId
  /\ home' = [home EXCEPT !.confirmTxId = NoId]
  /\ UNCHANGED <<db, page, form, pending, sub, accPage, catPage, calc, txPage, dels, catHook>>

(* ---------------------------- EditableRow ----------------------------- *)
\* the amount text of the edit row, parsed as save parses it: no result for
\* an unfinished decimal, else Number(t), which may be NaN (None)
SaveAmount(amountStr) ==
  LET t0 == RemoveAll(Trim(amountStr), " ")
      hasC == Includes(t0, ",")
      hasD == Includes(t0, ".")
      t == IF hasC /\ hasD
           THEN (IF LastIndexOf(t0, ",") > LastIndexOf(t0, ".")
                 THEN ReplaceFirst(RemoveAll(t0, "."), ",", ".")
                 ELSE RemoveAll(t0, ","))
           ELSE IF hasC THEN ReplaceFirst(t0, ",", ".") ELSE t0
  IN [unfinished |-> UnfinishedDecimal(t), amt |-> NumberOf(t)]

Field(name, value) == name :> value
NoField == <<>>

\* the patch save builds: only the fields whose edited value differs
SavePatch(row, iso, amt, accountId, category, notes) ==
  Field("id", row.id)
    @@ (IF iso # row.date THEN Field("date", iso) ELSE NoField)
    @@ (IF amt # None /\ amt[1] # row.amount THEN Field("amount", amt[1]) ELSE NoField)
    @@ (IF accountId # row.account_id THEN Field("account_id", accountId) ELSE NoField)
    @@ (IF Trim(category) # row.category THEN Field("category", Trim(category)) ELSE NoField)
    @@ (IF Trim(notes) # row.description THEN Field("description", Trim(notes)) ELSE NoField)

\* variant: the update is stored and the lists are not read again
handleUpdateTxNoRefresh(patch) ==
  /\ update_transaction(db, patch).ok
  /\ WithinBounds(update_transaction(db, patch).db)
  /\ db' = update_transaction(db, patch).db
  /\ home' = home

\* handleUpdateTx: update, then refresh
handleUpdateTx(patch) ==
  /\ update_transaction(db, patch).ok
  /\ WithinBounds(update_transaction(db, patch).db)
  /\ db' = update_transaction(db, patch).db
  /\ home' = refresh(db', home)

\* save of the edit row of a listed transaction
save(row, dateDE, amountStr, accountId, category, notes) ==
  /\ page = "home"
  /\ parseDateDEToISO(dateDE) # <<>>
  /\ ~SaveAmount(amountStr).unfinished
  /\ handleUpdateTx(SavePatch(row, parseDateDEToISO(dateDE), SaveAmount(amountStr).amt,
                              accountId, category, notes))
  /\ catHook' = Invalidated(catHook)
  /\ UNCHANGED <<page, form, pending, sub, accPage, catPage, calc, txPage, dels>>

\* the texts the edit row can be saved with: the row's own, or a typed one
EditDates(row) == {formatDate(row.date), <<"3", "1", ".", "0", "2", ".", "2", "0", "2", "4">>}
EditAmounts(row) == {toFixed2Comma(row.amount), <<"2">>, <<"1", ".">>}
EditCategories(row) == {row.category, <<>>, <<"f">>}
EditNotes(row) == {row.description}

SaveEdit ==
  \E row \in home.tx :
    \E dateDE \in EditDates(row), amountStr \in EditAmounts(row),
       accountId \in DOMAIN home.accounts,
       category \in EditCategories(row), notes \in EditNotes(row) :
      save(row, dateDE, amountStr, accountId, category, notes)

(* ----------------------------- Accounts ------------------------------- *)
AccountsUnmounted == [items |-> <<>>, confirmId |-> NoId, errorMsg |-> None]

\* CreateAccountDialog.submit and Accounts.handleCreate: an empty balance
\* text stands for 0, an unparseable one stops the submit
submit(name, accountType, initialBalanceStr) ==
  /\ page = "accounts"
  /\ accPage.confirmId = NoId /\ accPage.errorMsg = None
  /\ Trim(name) # <<>>
  /\ Trim(initialBalanceStr) = <<>> \/ AmountOf[initialBalanceStr] # None
  /\ LET value == IF Trim(initialBalanceStr) = <<>> THEN 0 ELSE AmountOf[initialBalanceStr][1]
         d == add_account(db, [name |-> Trim(name), account_type |-> accountType,
                               initial_balance |-> value])
     IN /\ WithinBounds(d)
        /\ db' = d
        /\ accPage' = [accPage EXCEPT !.items = list_accounts(d)]
  /\ UNCHANGED <<page, home, form, pending, sub, catPage, calc, txPage, dels, catHook>>

CreateAccount ==
  \E a \in AccountInputs, initialBalanceStr \in OpeningTexts :
    submit(a.name, a.type, initialBalanceStr)

\* requestDelete: the card's delete button opens the dialog
requestDelete(id) ==
  /\ page = "accounts"
  /\ accPage.confirmId = NoId /\ accPage.errorMsg = None
  /\ id \in DOMAIN accPage.items
  /\ accPage' = [accPage EXCEPT !.confirmId = id]
  /\ UNCHANGED <<db, page, home, form, pending, sub, catPage, calc, txPage, dels, catHook>>

\* variant: a rejection closes the dialog and shows nothing
onConfirmDeleteAccountSilent ==
  /\ page = "accounts" /\ accPage.confirmId # NoId
  /\ LET r == delete_account(db, accPage.confirmId) IN
       IF r.ok
       THEN /\ db' = r.db
            /\ accPage' = [items |-> list_accounts(r.db), confirmId |-> NoId, errorMsg |-> None]
       ELSE /\ accPage' = [accPage EXCEPT !.confirmId = NoId]
            /\ UNCHANGED db
  /\ UNCHANGED <<page, home, form, pending, sub, catPage, calc, txPage, dels, catHook>>

\* the delete dialog's onConfirm: on success close and refresh, on a
\* rejection close and show the error dialog
onConfirmDeleteAccount ==
  /\ page = "accounts" /\ accPage.confirmId # NoId
  /\ LET r == delete_account(db, accPage.confirmId) IN
       IF r.ok
       THEN /\ db' = r.db
            /\ accPage' = [items |-> list_accounts(r.db), confirmId |-> NoId, errorMsg |-> None]
       ELSE /\ accPage' = [accPage EXCEPT !.confirmId = NoId, !.errorMsg = Some("AccountInUse")]
            /\ UNCHANGED db
  /\ UNCHANGED <<page, home, form, pending, sub, catPage, calc, txPage, dels, catHook>>

onCancelDeleteAccount ==
  /\ page = "accounts" /\ accPage.confirmId # NoId
  /\ accPage' = [accPage EXCEPT !.confirmId = NoId]
  /\ UNCHANGED <<db, page, home, form, pending, sub, catPage, calc, txPage, dels, catHook>>

\* OK on the error dialog
dismissAccountError ==
  /\ page = "accounts" /\ accPage.errorMsg # None
  /\ accPage' = [accPage EXCEPT !.errorMsg = None]
  /\ UNCHANGED <<db, page, home, form, pending, sub, catPage, calc, txPage, dels, catHook>>

(* ---------------------------- Categories ------------------------------ *)
CategoriesUnmounted == [items |-> <<>>, confirmDeleteId |-> NoId, errorMsg |-> None]

\* saveCreate: add the trimmed name and refresh, or show the error
saveCreate(newName) ==
  /\ page = "categories"
  /\ catPage.confirmDeleteId = NoId /\ catPage.errorMsg = None
  /\ Trim(newName) # <<>>
  /\ LET r == add_category(db, Trim(newName)) IN
       IF r.ok
       THEN /\ WithinBounds(r.db)
            /\ db' = r.db
            /\ catPage' = [catPage EXCEPT !.items = list_categories(r.db)]
       ELSE /\ catPage' = [catPage EXCEPT !.errorMsg = Some("AddFailed")]
            /\ UNCHANGED db
  /\ UNCHANGED <<page, home, form, pending, sub, accPage, calc, txPage, dels, catHook>>

\* saveEdit: rename to the trimmed name and refresh, or show the error; an
\* empty name just closes the editor
saveEdit(editId, editName) ==
  /\ page = "categories"
  /\ catPage.confirmDeleteId = NoId /\ catPage.errorMsg = None
  /\ editId \in DOMAIN catPage.items
  /\ Trim(editName) # <<>>
  /\ LET r == update_category(db, editId, Trim(editName)) IN
       IF r.ok
       THEN /\ db' = r.db
            /\ catPage' = [catPage EXCEPT !.items = list_categories(r.db)]
       ELSE /\ catPage' = [catPage EXCEPT !.errorMsg = Some("RenameFailed")]
            /\ UNCHANGED db
  /\ UNCHANGED <<page, home, form, pending, sub, accPage, calc, txPage, dels, catHook>>

requestDeleteCategory(id) ==
  /\ page = "categories"
  /\ catPage.confirmDeleteId = NoId /\ catPage.errorMsg = None
  /\ id \in DOMAIN catPage.items
  /\ catPage' = [catPage EXCEPT !.confirmDeleteId = id]
  /\ UNCHANGED <<db, page, home, form, pending, sub, accPage, calc, txPage, dels, catHook>>

\* variant: every rejection shows the general message
confirmDeleteGeneralMessage ==
  /\ page = "categories" /\ catPage.confirmDeleteId # NoId
  /\ LET r == delete_category(db, catPage.confirmDeleteId) IN
       IF r.ok
       THEN /\ db' = r.db
            /\ catPage' = [items |-> list_categories(r.db), confirmDeleteId |-> NoId, errorMsg |-> None]
       ELSE /\ catPage' = [catPage EXCEPT !.confirmDeleteId = NoId, !.errorMsg = Some("DeleteFailed")]
            /\ UNCHANGED db
  /\ UNCHANGED <<page, home, form, pending, sub, accPage, calc, txPage, dels, catHook>>

\* confirmDelete: close the dialog, delete and refresh; a rejection whose
\* message says "in use" shows the in-use message
confirmDelete ==
  /\ page = "categories" /\ catPage.confirmDeleteId # NoId
  /\ LET r == delete_category(db, catPage.confirmDeleteId) IN
       IF r.ok
       THEN /\ db' = r.db
            /\ catPage' = [items |-> list_categories(r.db), confirmDeleteId |-> NoId, errorMsg |-> None]
       ELSE /\ catPage' = [catPage EXCEPT !.confirmDeleteId = NoId, !.errorMsg = Some("CategoryInUse")]
            /\ UNCHANGED db
  /\ UNCHANGED <<page, home, form, pending, sub, accPage, calc, txPage, dels, catHook>>

cancelDeleteCategory ==
  /\ page = "categories" /\ catPage.confirmDeleteId # NoId
  /\ catPage' = [catPage EXCEPT !.confirmDeleteId = NoId]
  /\ UNCHANGED <<db, page, home, form, pending, sub, accPage, calc, txPage, dels, catHook>>

dismissCategoryError ==
  /\ page = "categories" /\ catPage.errorMsg # None
  /\ catPage' = [catPage EXCEPT !.errorMsg = None]
  /\ UNCHANGED <<db, page, home, form, pending, sub, accPage, calc, txPage, dels, catHook>>

(* ---------------------------- navigation ------------------------------ *)
Pages == {"home", "accounts", "categories"}

\* a route change unmounts the page and mounts the other one, whose mount
\* effect loads its lists
Navigate(p) ==
  /\ p # page
  /\ ~form.busy
  /\ page' = p
  /\ home' = IF p = "home" THEN refresh(db, HomeUnmounted) ELSE HomeUnmounted
  /\ form' = [busy |-> FALSE, showErrors |-> FALSE]
  /\ accPage' = IF p = "accounts" THEN [AccountsUnmounted EXCEPT !.items = list_accounts(db)]
                ELSE AccountsUnmounted
  /\ catPage' = IF p = "categories" THEN [CategoriesUnmounted EXCEPT !.items = list_categories(db)]
                ELSE CategoriesUnmounted
  /\ sub' = NoSubmit
  /\ UNCHANGED <<db, pending, calc, txPage, dels, catHook>>

(* --------------------------- specification ---------------------------- *)
\* no function was called yet
NoCalc == [fn |-> "none", arg |-> <<>>, out |-> <<>>]

\* the Transactions page is not mounted
TxUnmounted == [mounted |-> FALSE]
\* no delete dialog was confirmed yet
NoDeletes == [calls |-> 0, inflight |-> <<>>, cancelled |-> FALSE]
\* no category picker is mounted: nothing listens to the invalidation
CatsUnmounted == [mounted |-> FALSE]

InitWith(d) ==
  /\ db = d
  /\ page = "home"
  /\ home = refresh(d, HomeUnmounted)
  /\ form = [busy |-> FALSE, showErrors |-> FALSE]
  /\ pending = <<>>
  /\ sub = NoSubmit
  /\ accPage = AccountsUnmounted
  /\ catPage = CategoriesUnmounted
  /\ calc = NoCalc
  /\ txPage = TxUnmounted
  /\ dels = NoDeletes
  /\ catHook = CatsUnmounted

\* a fresh store, Home mounted
Init == InitWith(EmptyDb)

\* the store after a standard account A and a reimbursable account B were
\* created without opening balances
TwoAccountsDb ==
  add_account(add_account(EmptyDb, [name |-> <<"A">>, account_type |-> "standard", initial_balance |-> 0]),
              [name |-> <<"B">>, account_type |-> "reimbursable", initial_balance |-> 0])

Next ==
  \/ SubmitMovementFew
  \/ SubmitTransferFew
  \/ OnAddOk
  \/ OnAddFail
  \/ \E id \in 1..MaxTx : requestDeleteTx(id)
  \/ confirmDeleteTx
  \/ cancelDeleteTx
  \/ SaveEdit
  \/ CreateAccount
  \/ \E id \in 1..MaxAccounts : requestDelete(id)
  \/ onConfirmDeleteAccount
  \/ onCancelDeleteAccount
  \/ dismissAccountError
  \/ \E newName \in CategoryNames : saveCreate(newName)
  \/ \E editId \in 1..MaxCategories, editName \in CategoryNames : saveEdit(editId, editName)
  \/ \E id \in 1..MaxCategories : requestDeleteCategory(id)
  \/ confirmDelete
  \/ cancelDeleteCategory
  \/ dismissCategoryError
  \/ \E p \in Pages : Navigate(p)

Spec == Init /\ [][Next]_vars

\* the add form alone, on a store that has the two accounts
InitForm == InitWith(TwoAccountsDb)
NextForm ==
  \/ SubmitMovement
  \/ SubmitTransfer
  \/ OnAddOk
  \/ OnAddFail
SpecForm == InitForm /\ [][NextForm]_vars

\* Home with its list: adding, editing and deleting rows
NextHome ==
  \/ SubmitMovementPlain
  \/ OnAddOk
  \/ OnAddFail
  \/ \E id \in 1..MaxTx : requestDeleteTx(id)
  \/ confirmDeleteTx
  \/ cancelDeleteTx
  \/ SaveEdit
SpecHome == InitForm /\ [][NextHome]_vars

\* the Accounts page on a fresh store, and Home's list to delete rows from
NextAccounts ==
  \/ CreateAccount
  \/ \E id \in 1..MaxAccounts : requestDelete(id)
  \/ onConfirmDeleteAccount
  \/ onCancelDeleteAccount
  \/ dismissAccountError
  \/ \E id \in 1..MaxTx : requestDeleteTx(id)
  \/ confirmDeleteTx
  \/ cancelDeleteTx
  \/ \E p \in {"home", "accounts"} : Navigate(p)
SpecAccounts == Init /\ [][NextAccounts]_vars

\* an expense of 2 on account 1, on the good date, in category F typed
\* either way
SubmitExpenseNamed ==
  \E category \in { <<"F">>, <<"f">> } :
    onSubmit(FormFields("expense", <<"1", "5", ".", "0", "1", ".", "2", "0", "2", "4">>, <<"2">>,
                        <<>>, category, 1, NoId, NoId, NoId))

\* the edit row saved with another category text and nothing else changed
SaveCategoryEdit ==
  \E row \in home.tx :
    \E category \in EditCategories(row) :
      save(row, formatDate(row.date), toFixed2Comma(row.amount), row.account_id, category,
           row.description)

\* the Categories page, and Home's form and list, which name categories too
NextCategories ==
  \/ \E newName \in CategoryNames : saveCreate(newName)
  \/ \E editId \in 1..MaxCategories, editName \in CategoryNames : saveEdit(editId, editName)
  \/ \E id \in 1..MaxCategories : requestDeleteCategory(id)
  \/ confirmDelete
  \/ cancelDeleteCategory
  \/ dismissCategoryError
  \/ SubmitExpenseNamed
  \/ OnAddOk
  \/ OnAddFail
  \/ SaveCategoryEdit
  \/ \E p \in {"home", "categories"} : Navigate(p)
SpecCategories == InitForm /\ [][NextCategories]_vars

\* an expense on account 1, on the good date, in category F, of 2 or of
\* 0,116
SubmitExpenseFine ==
  \E amountStr \in { <<"2">>, <<",", "1", "1", "6">> } :
    onSubmit(FormFields("expense", <<"1", "5", ".", "0", "1", ".", "2", "0", "2", "4">>, amountStr,
                        <<>>, <<"F">>, 1, NoId, NoId, NoId))

\* the texts and the account the edit row shows when it is opened
EditRowInitial(row) ==
  [dateDE |-> formatDate(row.date), amountStr |-> toFixed2Comma(row.amount),
   accountId |-> row.account_id, category |-> row.category, notes |-> row.description]

\* save of the edit row, once, keeping the row, what was typed, the patch
\* and the row as stored afterwards
SaveRecordedWith(row, dateDE, amountStr, accountId, category, notes) ==
  LET patch == SavePatch(row, parseDateDEToISO(dateDE), SaveAmount(amountStr).amt,
                         accountId, category, notes)
  IN /\ page = "home"
     /\ calc = NoCalc
     /\ parseDateDEToISO(dateDE) # <<>>
     /\ ~SaveAmount(amountStr).unfinished
     /\ handleUpdateTx(patch)
     /\ calc' = [fn |-> "save",
                 arg |-> [row |-> row,
                          typed |-> [dateDE |-> dateDE, amountStr |-> amountStr,
                                     accountId |-> accountId, category |-> category,
                                     notes |-> notes]],
                 out |-> [patch |-> patch, stored |-> TxView(db', row.id)]]
     /\ UNCHANGED <<page, form, pending, sub, accPage, catPage, txPage, dels, catHook>>

SaveRecorded ==
  \E row \in home.tx :
    \E dateDE \in EditDates(row), amountStr \in EditAmounts(row),
       accountId \in DOMAIN home.accounts,
       category \in EditCategories(row), notes \in EditNotes(row) \cup { <<"n">> } :
      SaveRecordedWith(row, dateDE, amountStr, accountId, category, notes)

\* amount texts that are no number: empty, blank, a lone sign, two commas
UnparsedAmounts == { <<>>, <<" ">>, <<"-">>, <<"1", ",", "2", ",", "5">> }

\* save with the amount field cleared or holding no number, the other
\* fields as the row opened
SaveUnparsed ==
  \E row \in home.tx, amountStr \in UnparsedAmounts :
    SaveRecordedWith(row, formatDate(row.date), amountStr, row.account_id,
                     row.category, row.description)

\* Home's form and edit row, with amounts finer than a cent
NextEdit ==
  \/ SubmitExpenseFine
  \/ OnAddOk
  \/ OnAddFail
  \/ SaveRecorded
SpecEdit == InitForm /\ [][NextEdit]_vars

\* the same, with saves of an amount field that holds no number
NextUnparsed ==
  \/ NextEdit
  \/ SaveUnparsed
SpecUnparsed == InitForm /\ [][NextUnparsed]_vars

(* ------------------------- the add form's writes ---------------------- *)
\* the ids of the rows the last submit wrote
WrittenIds == {sub.written[i].id : i \in 1..Len(sub.written)}

\* C1: a submit that is to write two rows (a transfer pair, or a movement and
\* its mirror) is all-or-nothing: when one of its insertions fails, none of
\* its rows is in the ledger
AllOrNothing ==
  (sub.rows = 2 /\ sub.status = "failed") => WrittenIds \cap DOMAIN db.transactions = {}

\* C2: no read sees half of a pair: while or after a two-row submit, the
\* rows Home last read hold both of its rows or none of them
NoHalfCommittedRead ==
  sub.rows = 2 => Cardinality({t \in home.tx : t.id \in WrittenIds}) \in {0, 2}

\* C3: a completed transfer of a typed amount m from A to B wrote exactly two
\* rows, -|m| on A and +|m| on B, with one date and one description, and left
\* balance(A) + balance(B) as it was
TransferWritesBalancedPair ==
  (sub.txType = "transfer" /\ sub.status = "done") =>
     /\ Len(sub.written) = 2 /\ sub.calls = 2
     /\ sub.amt # 0 /\ sub.account # sub.other
     /\ sub.written[1].account_id = sub.account
     /\ sub.written[1].amount = (IF sub.amt < 0 THEN sub.amt ELSE 0 - sub.amt)
     /\ sub.written[2].account_id = sub.other
     /\ sub.written[2].amount = (IF sub.amt < 0 THEN 0 - sub.amt ELSE sub.amt)
     /\ sub.written[1].date = sub.written[2].date
     /\ sub.written[1].description = sub.written[2].description
     /\ sub.written[1].id # sub.written[2].id
     /\ \A i \in 1..2 : TxView(db, sub.written[i].id) = sub.written[i]
     /\ balance(db, sub.account) + balance(db, sub.other) = sub.before
\* a transfer typed with a minus sign has completed
TransferDone ==
  sub.txType = "transfer" /\ sub.status = "done" /\ sub.amt < 0 /\ Len(sub.written) = 2

\* C8: a completed income or expense wrote one row on the primary account,
\* and, exactly when a reimbursable account other than the primary one was
\* chosen, one more row on that account with the same amount, date,
\* description and category
MirrorRowIffOtherAccount ==
  (sub.txType \in {"income", "expense"} /\ sub.status = "done") =>
     /\ sub.written[1].account_id = sub.account
     /\ IF sub.other # NoId /\ sub.other # sub.account
        THEN /\ Len(sub.written) = 2 /\ sub.calls = 2
             /\ sub.written[2].account_id = sub.other
             /\ sub.written[2].amount = sub.written[1].amount
             /\ sub.written[2].date = sub.written[1].date
             /\ sub.written[2].description = sub.written[1].description
             /\ sub.written[2].category_id = sub.written[1].category_id
             /\ sub.written[2].category = sub.written[1].category
        ELSE Len(sub.written) = 1 /\ sub.calls = 1
\* an expense with a mirror row has completed
MirrorDone ==
  /\ sub.txType = "expense" /\ sub.status = "done"
  /\ sub.other # NoId /\ sub.other # sub.account /\ Len(sub.written) = 2
\* the reimbursable account was both the primary and the chosen one
SameAccountDone ==
  sub.txType \in {"income", "expense"} /\ sub.status = "done" /\ sub.other = sub.account

\* C9: a submit with an invalid date, an unparseable or zero amount, a
\* missing account, a transfer onto its own source, or an income or expense
\* without a category is rejected: onAdd is not called and the step leaves
\* the ledger as it was
InvalidInputRejected ==
  sub.invalid => (sub.status = "rejected" /\ sub.calls = 0 /\ pending = <<>> /\ ~form.busy)
RejectionKeepsLedger == (sub'.status = "rejected") => (db' = db)
InvalidInputWritesNothing == []InvalidInputRejected /\ [][RejectionKeepsLedger]_vars
\* an invalid submit was rejected and the form shows its errors
InvalidRejected == sub.invalid /\ sub.status = "rejected" /\ form.showErrors /\ sub.calls = 0

\* C10: whatever sign was typed, every row of an income is positive and every
\* row of an expense is negative
SignFollowsIntent ==
  \A i \in 1..Len(sub.written) :
     /\ sub.txType = "income" => (sub.written[i].amount > 0 /\ db.transactions[sub.written[i].id].amount > 0)
     /\ sub.txType = "expense" => (sub.written[i].amount < 0 /\ db.transactions[sub.written[i].id].amount < 0)
\* an income typed with a minus sign and an expense typed without one wrote rows
IncomeTypedNegative == sub.txType = "income" /\ sub.amt < 0 /\ Len(sub.written) >= 1
ExpenseTypedPositive == sub.txType = "expense" /\ sub.amt > 0 /\ Len(sub.written) >= 1

(* ------------------------------ balances ------------------------------ *)
\* C4: after any sequence of additions, updates and deletions the balance
\* Home shows for an account is the sum of the amounts of the transactions
\* that reference it, and an update that moves a transaction to another
\* account takes its old amount from the one and gives its new amount to the
\* other
ShownBalanceIsLedgerSum ==
  page = "home" =>
     /\ DOMAIN home.accounts = DOMAIN db.accounts
     /\ \A a \in DOMAIN db.accounts :
          home.accounts[a].balance =
            SumAmounts(db.transactions,
                       {i \in DOMAIN db.transactions : db.transactions[i].account_id = a})
MoveShiftsBothBalances ==
  \A i \in DOMAIN db.transactions \cap DOMAIN db'.transactions :
     LET old == db.transactions[i]
         new == db'.transactions[i]
     IN old.account_id # new.account_id =>
          /\ page' = "home"
          /\ home'.accounts[old.account_id].balance = home.accounts[old.account_id].balance - old.amount
          /\ home'.accounts[new.account_id].balance = home.accounts[new.account_id].balance + new.amount
Referencing(a) == {i \in DOMAIN db.transactions : db.transactions[i].account_id = a}

\* C5: confirming the deletion of an account that transactions reference
\* fails with the in-use error and changes neither accounts nor transactions;
\* the deletion goes through only for an account without transactions, and no
\* step removes an account that is referenced
ConfirmedAccountDeletion ==
  onConfirmDeleteAccount =>
     IF Referencing(accPage.confirmId) # {}
     THEN /\ db' = db
          /\ accPage'.errorMsg = Some("AccountInUse")
          /\ accPage'.confirmId = NoId
     ELSE /\ accPage.confirmId \notin DOMAIN db'.accounts
          /\ db'.transactions = db.transactions
          /\ accPage'.errorMsg = None
OnlyUnusedAccountsGo ==
  \A a \in DOMAIN db.accounts \ DOMAIN db'.accounts :
     Referencing(a) = {} /\ db'.transactions = db.transactions
NoOrphanTransaction ==
  \A i \in DOMAIN db.transactions : db.transactions[i].account_id \in DOMAIN db.accounts
AccountDeleteGuarded ==
  []NoOrphanTransaction /\ [][ConfirmedAccountDeletion /\ OnlyUnusedAccountsGo]_vars
\* the in-use error is shown and the account and its transactions are there
AccountInUseShown ==
  /\ page = "accounts" /\ accPage.errorMsg = Some("AccountInUse")
  /\ \E a \in DOMAIN db.accounts : Referencing(a) # {} /\ a \in DOMAIN accPage.items
\* an account is gone that once had an opening row
EmptiedAccountDeleted ==
  /\ db.seq.tx > 1 /\ db.transactions = <<>>
  /\ db.seq.acc > 1 /\ DOMAIN db.accounts = {}

(* ------------------------- deleting a category ------------------------ *)
\* the transactions of the store that carry the category
Carrying(c) == {i \in DOMAIN db.transactions : db.transactions[i].category_id = c}

\* C6: confirming the deletion of a category that transactions carry fails
\* with the in-use error and changes nothing, the transactions keep their
\* category; once they carry another or none, the deletion goes through; no
\* step removes a category that is carried
ConfirmedCategoryDeletion ==
  confirmDelete =>
     IF Carrying(catPage.confirmDeleteId) # {}
     THEN /\ db' = db
          /\ catPage'.errorMsg = Some("CategoryInUse")
          /\ catPage'.confirmDeleteId = NoId
     ELSE /\ catPage.confirmDeleteId \notin DOMAIN db'.categories
          /\ db'.transactions = db.transactions
          /\ catPage'.errorMsg = None
OnlyUnusedCategoriesGo ==
  \A c \in DOMAIN db.categories \ DOMAIN db'.categories :
     Carrying(c) = {} /\ db'.transactions = db.transactions
NoDanglingCategory ==
  \A i \in DOMAIN db.transactions :
     db.transactions[i].category_id \in {NoId} \cup DOMAIN db.categories
ReassignedThenDeleted ==
  /\ db.seq.cat = 2 /\ DOMAIN db.categories = {}
  /\ \E i \in DOMAIN db.transactions : db.transactions[i].category_id = NoId

(* --------------------------- category names --------------------------- *)
\* a name some category other than id has, compared without case
NameTaken(id, name) ==
  \E c \in DOMAIN db.categories : c # id /\ ToLower(db.categories[c]) = ToLower(Trim(name))

\* C7: no two categories have names that are equal without case, after any
\* creation, rename or creation by a transaction's category text; a creation
\* or rename onto a taken name is rejected and leaves the categories as they
\* were
NamesDifferWithoutCase ==
  \A c1, c2 \in DOMAIN db.categories :
     c1 # c2 => ToLower(db.categories[c1]) # ToLower(db.categories[c2])
ConflictingNameRejected ==
  /\ \A n \in CategoryNames :
       (saveCreate(n) /\ NameTaken(NoId, n)) => (db' = db /\ catPage'.errorMsg # None)
  /\ \A c \in 1..MaxCategories, n \in CategoryNames :
       (saveEdit(c, n) /\ NameTaken(c, n)) => (db' = db /\ catPage'.errorMsg # None)
CategoryNamesUnique == []NamesDifferWithoutCase /\ [][ConflictingNameRejected]_vars
\* a creation was rejected while a category exists
CreateRejected ==
  /\ page = "categories" /\ catPage.errorMsg = Some("AddFailed")
  /\ DOMAIN db.categories # {}

(* --------------------------- amount texts ----------------------------- *)
\* the characters typed into an amount field
AmountChars == {"1", "6", ",", ".", "-", " "}
\* every text of at most n characters
RECURSIVE TextsUpTo(_)
TextsUpTo(n) ==
  IF n = 0 THEN { <<>> }
  ELSE LET shorter == TextsUpTo(n - 1)
       IN shorter \cup {Append(t, c) : t \in {u \in shorter : Len(u) = n - 1}, c \in AmountChars}
\* short texts of any shape; none has more than FracDigits digits after a
\* separator
ShortAmountTexts == TextsUpTo(FracDigits + 1)

\* digit strings: a leading group, a group of three, and decimals
LeadTexts == { <<"1">>, <<"6">>, <<"1", "6">> }
GroupTexts == { <<a, b, c>> : a \in {"0", "6"}, b \in {"0", "1"}, c \in {"1", "6"} }
DecimalTexts == { <<"1">>, <<"6">>, <<"1", "6">>, <<"6", "1">>, <<"0", "6">> }
\* lead, thousands separator, group, decimal separator, decimals
GroupedText(lead, thousands, group, point, decimals) ==
  lead \o <<thousands>> \o group \o <<point>> \o decimals

\* parseAmountString applied to a grouped text in either notation
ParseGrouped ==
  \E lead \in LeadTexts, group \in GroupTexts, decimals \in DecimalTexts,
     seps \in { <<".", ",">>, <<",", ".">> } :
    /\ calc = NoCalc
    /\ calc' = [fn |-> "parseAmountString",
                arg |-> GroupedText(lead, seps[1], group, seps[2], decimals),
                out |-> parseAmountString(GroupedText(lead, seps[1], group, seps[2], decimals))]
    /\ UNCHANGED <<db, page, home, form, pending, sub, accPage, catPage, txPage, dels, catHook>>

\* parseAmountString applied to a short text
ParseShort ==
  \E s \in ShortAmountTexts :
    /\ calc = NoCalc
    /\ calc' = [fn |-> "parseAmountString", arg |-> s, out |-> parseAmountString(s)]
    /\ UNCHANGED <<db, page, home, form, pending, sub, accPage, catPage, txPage, dels, catHook>>

\* parseDecimal applied to a grouped text in either notation
DecimalGrouped ==
  \E lead \in LeadTexts, group \in GroupTexts, decimals \in DecimalTexts,
     seps \in { <<".", ",">>, <<",", ".">> } :
    /\ calc = NoCalc
    /\ calc' = [fn |-> "parseDecimal",
                arg |-> GroupedText(lead, seps[1], group, seps[2], decimals),
                out |-> parseDecimal(GroupedText(lead, seps[1], group, seps[2], decimals))]
    /\ UNCHANGED <<db, page, home, form, pending, sub, accPage, catPage, txPage, dels, catHook>>

\* parseDecimal applied to a short text
DecimalShort ==
  \E s \in ShortAmountTexts :
    /\ calc = NoCalc
    /\ calc' = [fn |-> "parseDecimal", arg |-> s, out |-> parseDecimal(s)]
    /\ UNCHANGED <<db, page, home, form, pending, sub, accPage, catPage, txPage, dels, catHook>>

\* the balance field of the create-account dialog on blur: a text that
\* parses is replaced by its formatted value, which is what is parsed next
BlurBalance(s) ==
  /\ calc = NoCalc
  /\ parseAmountString(s) # None
  /\ calc' = [fn |-> "onBlur", arg |-> s,
              out |-> [parsed |-> parseAmountString(s)[1],
                       shown |-> formatDE(parseAmountString(s)[1]),
                       reparsed |-> parseAmountString(formatDE(parseAmountString(s)[1]))]]
  /\ UNCHANGED <<db, page, home, form, pending, sub, accPage, catPage, txPage, dels, catHook>>

BlurGrouped ==
  \E lead \in LeadTexts, group \in GroupTexts, decimals \in DecimalTexts,
     seps \in { <<".", ",">>, <<",", ".">> } :
    BlurBalance(GroupedText(lead, seps[1], group, seps[2], decimals))

BlurShort == \E s \in ShortAmountTexts : BlurBalance(s)

\* the names a category list is made of, and the texts typed for a category
OptionNames == { <<"F">>, <<"f">>, <<"R">> }
TypedCategories == { <<>>, <<" ">>, <<"F">>, <<" ", "f", " ">>, <<"r">>, <<"F", "r">> }
\* every list of at most n names
RECURSIVE OptionLists(_)
OptionLists(n) ==
  IF n = 0 THEN { <<>> }
  ELSE LET shorter == OptionLists(n - 1)
       IN shorter \cup {Append(l, o) : l \in {k \in shorter : Len(k) = n - 1}, o \in OptionNames}

\* canonicalizeCategory applied to a typed text and a list of names
Canonicalize ==
  \E input \in TypedCategories, options \in OptionLists(MaxCategories) :
    /\ calc = NoCalc
    /\ calc' = [fn |-> "canonicalizeCategory", arg |-> [input |-> input, options |-> options],
                out |-> canonicalizeCategory(input, options)]
    /\ UNCHANGED <<db, page, home, form, pending, sub, accPage, catPage, txPage, dels, catHook>>

NextParse ==
  \/ Canonicalize
  \/ BlurGrouped
  \/ BlurShort
  \/ ParseGrouped
  \/ ParseShort
  \/ DecimalGrouped
  \/ DecimalShort
SpecParse == Init /\ [][NextParse]_vars

\* the number written as the digits ip, a point and the digits fp
DecimalValue(ip, fp) == DigitsValue(ip) * Scale + DigitsValue(fp) * Pow10(FracDigits - Len(fp))

\* C11: the separator that occurs last is the decimal point and the other
\* one is dropped: 1.234,56 and 1,234.56 both give 1234.56 for all digit
\* strings of that shape, and a text with one separator between digits gives
\* the number with the point at that place
GroupedParsesByLastSeparator ==
  \A lead \in LeadTexts, group \in GroupTexts, decimals \in DecimalTexts,
     seps \in { <<".", ",">>, <<",", ".">> } :
    (calc.fn = "parseAmountString"
       /\ calc.arg = GroupedText(lead, seps[1], group, seps[2], decimals))
      => calc.out = Some(DecimalValue(lead \o group, decimals))
SingleSeparatorIsPoint ==
  \A lead \in LeadTexts, decimals \in {d \in DecimalTexts : Len(d) <= FracDigits - 1} \cup LeadTexts,
     sep \in {",", "."} :
    (calc.fn = "parseAmountString" /\ calc.arg = lead \o <<sep>> \o decimals)
      => calc.out = Some(DecimalValue(lead, decimals))
LastSeparatorIsDecimalPoint == GroupedParsesByLastSeparator /\ SingleSeparatorIsPoint
\* 1.601,16 was parsed
GroupedParsed ==
  /\ calc.fn = "parseAmountString"
  /\ calc.arg = <<"1", ".", "6", "0", "1", ",", "1", "6">>
  /\ calc.out = Some(DecimalValue(<<"1", "6", "0", "1">>, <<"1", "6">>))

\* C12: parseDecimal gives the value of every complete decimal text in
\* either notation (5,23 and 5.23 give 5.23; 1.234,56 and 1,234.56 give
\* 1234.56), and gives null, never 0, for the empty text, a lone minus and a
\* text that ends in its separator
CompleteDecimalHasValue ==
  /\ \A lead \in LeadTexts, decimals \in DecimalTexts, sep \in {",", "."} :
       (calc.fn = "parseDecimal" /\ calc.arg = lead \o <<sep>> \o decimals)
         => calc.out = Some(DecimalValue(lead, decimals))
  /\ \A lead \in LeadTexts, group \in GroupTexts, decimals \in DecimalTexts,
        seps \in { <<".", ",">>, <<",", ".">> } :
       (calc.fn = "parseDecimal"
          /\ calc.arg = GroupedText(lead, seps[1], group, seps[2], decimals))
         => calc.out = Some(DecimalValue(lead \o group, decimals))
UnfinishedDecimalIsNull ==
  (calc.fn = "parseDecimal"
     /\ calc.arg \in { <<>>, <<"-">> } \cup {lead \o <<sep>> : lead \in LeadTexts, sep \in {",", "."}})
    => calc.out = None
ParseDecimalContract == CompleteDecimalHasValue /\ UnfinishedDecimalIsNull

\* C13: for every text the amount parser accepts, the parsed number
\* formatted with two decimals the German way and parsed again is the same
\* number
ReparsedIsParsed ==
  calc.fn = "onBlur" => calc.out.reparsed = Some(calc.out.parsed)

PatchFields == {"date", "amount", "account_id", "category", "description"}
TypedField(field) ==
  IF field = "date" THEN "dateDE" ELSE IF field = "amount" THEN "amountStr"
  ELSE IF field = "account_id" THEN "accountId" ELSE IF field = "category" THEN "category"
  ELSE "notes"

\* C15: an update leaves every field that is absent from the patch as it was
\* stored, and the patch of the edit row names only fields that were edited,
\* so that saving a row as it was opened changes no field
AbsentFieldsKept ==
  calc.fn = "save" =>
    \A field \in PatchFields \ DOMAIN calc.out.patch :
       /\ calc.out.stored[field] = calc.arg.row[field]
       /\ field = "category" => calc.out.stored.category_id = calc.arg.row.category_id
OnlyEditedFieldsInPatch ==
  calc.fn = "save" =>
    \A field \in PatchFields :
       calc.arg.typed[TypedField(field)] = EditRowInitial(calc.arg.row)[TypedField(field)]
         => field \notin DOMAIN calc.out.patch
PartialPatch == AbsentFieldsKept /\ OnlyEditedFieldsInPatch

(* --------------------------- the query engine ------------------------- *)
\* the characters of the texts the ledger holds, in the order texts are
\* compared in
Alphabet == <<"-", "0", "1", "2", "3", "4", "5", "6", "7", "8", "9",
              "A", "B", "F", "R", "f", "n", "r">>
CharRank(c) == CHOOSE i \in 1..Len(Alphabet) : Alphabet[i] = c

\* a < b, character by character; a proper prefix comes first, so a missing
\* text comes before every other
RECURSIVE TextLess(_, _)
TextLess(a, b) ==
  IF b = <<>> THEN FALSE
  ELSE IF a = <<>> THEN TRUE
  ELSE IF Head(a) = Head(b) THEN TextLess(Tail(a), Tail(b))
  ELSE CharRank(Head(a)) < CharRank(Head(b))

\* q occurs in text
Contains(text, q) ==
  \E i \in 1..(Len(text) - Len(q) + 1) : SubSeq(text, i, i + Len(q) - 1) = q

Max(a, b) == IF a > b THEN a ELSE b
Min(a, b) == IF a < b THEN a ELSE b

\* free text over description and category without case, account and
\* inclusive date range: the filtered set
MatchesFilter(d, q, i) ==
  LET v == TxView(d, i) IN
  /\ \/ q.query = <<>>
     \/ Contains(ToLower(v.description), ToLower(q.query))
     \/ Contains(ToLower(v.category), ToLower(q.query))
  /\ q.account_id = NoId \/ v.account_id = q.account_id
  /\ q.date_from = <<>> \/ ~TextLess(v.date, q.date_from)
  /\ q.date_to = <<>> \/ ~TextLess(q.date_to, v.date)

\* the type restriction
MatchesType(q, amount) ==
  \/ q.tx_type = "all"
  \/ q.tx_type = "income" /\ amount > 0
  \/ q.tx_type = "expense" /\ amount < 0

Filtered(d, q) == {i \in DOMAIN d.transactions : MatchesFilter(d, q, i)}
Matching(d, q) == {i \in Filtered(d, q) : MatchesType(q, d.transactions[i].amount)}

\* the sort key of row i is below that of row j
KeyLess(d, q, i, j) ==
  LET a == TxView(d, i)
      b == TxView(d, j)
  IN CASE q.sort_by = "date" -> TextLess(a.date, b.date)
       [] q.sort_by = "category" -> TextLess(a.category, b.category)
       [] q.sort_by = "description" -> TextLess(a.description, b.description)
       [] q.sort_by = "amount" -> a.amount < b.amount
       [] q.sort_by = "account" -> TextLess(d.accounts[a.account_id].name, d.accounts[b.account_id].name)
       [] q.sort_by = "id" -> i < j

\* ORDER BY <sort key> <direction>, id ASC
\* the same order with the ties left in descending id
ComesBeforeTiesDescending(d, q, i, j) ==
  IF ~KeyLess(d, q, i, j) /\ ~KeyLess(d, q, j, i) THEN i > j
  ELSE IF q.sort_dir = "asc" THEN KeyLess(d, q, i, j) ELSE KeyLess(d, q, j, i)
ComesBefore(d, q, i, j) ==
  IF ~KeyLess(d, q, i, j) /\ ~KeyLess(d, q, j, i) THEN i < j
  ELSE IF q.sort_dir = "asc" THEN KeyLess(d, q, i, j) ELSE KeyLess(d, q, j, i)

RECURSIVE Ordered(_, _, _)
Ordered(d, q, ids) ==
  IF ids = {} THEN <<>>
  ELSE LET first == CHOOSE i \in ids : \A j \in ids \ {i} : ComesBefore(d, q, i, j)
       IN <<first>> \o Ordered(d, q, ids \ {first})

\* the offset the page starts at: the sentinel -1 asks for the last page
\* the sentinel resolved without the rounding
EffectiveOffsetUnrounded(total, limit, offset) ==
  IF offset = -1 THEN Max(0, total - limit)
  ELSE Min(offset, total)
EffectiveOffset(total, limit, offset) ==
  IF offset = -1 THEN (Max(0, total - limit) \div limit) * limit
  ELSE Min(offset, total)

\* the sums of a page only
PageSums(d, q, pageIds) ==
  [income |-> SumAmounts(d.transactions, {i \in pageIds : d.transactions[i].amount > 0}),
   expense |-> SumAmounts(d.transactions, {i \in pageIds : d.transactions[i].amount < 0})]
\* the sums over the filtered set, whatever the page and the type restriction
FilterSums(d, q, pageIds) ==
  [income |-> SumAmounts(d.transactions, {i \in Filtered(d, q) : d.transactions[i].amount > 0}),
   expense |-> SumAmounts(d.transactions, {i \in Filtered(d, q) : d.transactions[i].amount < 0})]

\* search_transactions: one page of the matching rows, their number, the
\* offset the page starts at and the two sums
search_transactions(d, q) ==
  LET ordered == Ordered(d, q, Matching(d, q))
      total == Len(ordered)
      off == EffectiveOffset(total, q.limit, q.offset)
      pageIds == SubSeq(ordered, off + 1, Min(total, off + q.limit))
      sums == FilterSums(d, q, {pageIds[k] : k \in 1..Len(pageIds)})
  IN [items |-> [k \in 1..Len(pageIds) |-> TxView(d, pageIds[k])],
      total |-> total,
      offset |-> off,
      sum_income |-> sums.income,
      sum_expense |-> sums.expense]

(* --------------------------- ledgers to search ------------------------ *)
MaxRows == 4
MaxPageSize == 2

Later == <<"2", "0", "2", "4", "-", "0", "2", "-", "0", "1">>
RowAmounts == <<2, -1, 2, -3>>
RowCategories == << <<"F">>, <<>>, <<"R">> >>

\* the n-th row written to the ledger: the rows alternate between the two
\* accounts, repeat dates and amounts, and some carry no category or note
RowInput(n) ==
  NewTransaction(1 + (n % 2),
                 IF n % 3 = 0 THEN Later ELSE Today,
                 IF (n \div 2) % 2 = 0 THEN <<>> ELSE <<"n">>,
                 RowAmounts[1 + (n % 4)] * Scale,
                 RowCategories[1 + (n % 3)])

\* the store after n rows were added to the two accounts
RECURSIVE LedgerOf(_)
LedgerOf(n) ==
  IF n = 0 THEN TwoAccountsDb
  ELSE add_transaction(LedgerOf(n - 1), RowInput(n)).db

\* the searches the pages issue
TxTypeFilters == {"all", "income", "expense"}
SortKeys == {"date", "category", "description", "amount", "account", "id"}
SortDirs == {"asc", "desc"}
Queries ==
  [query : {<<>>, <<"f">>},
   account_id : {NoId, 1},
   date_from : {<<>>, Later},
   date_to : {<<>>, Today},
   tx_type : TxTypeFilters,
   limit : 1..MaxPageSize,
   offset : {-1} \cup 0..MaxRows,
   sort_by : SortKeys,
   sort_dir : SortDirs]

\* searchTransactions(filters)
Search ==
  \E q \in Queries :
    /\ calc = NoCalc
    /\ calc' = [fn |-> "search_transactions", arg |-> q, out |-> search_transactions(db, q)]
    /\ UNCHANGED <<db, page, home, form, pending, sub, accPage, catPage, txPage, dels, catHook>>

\* Stats: the expenses are fetched page by page, by ascending id, until the
\* offset reaches the total
NoFilter ==
  [query |-> <<>>, account_id |-> NoId, date_from |-> <<>>, date_to |-> <<>>]
\* what the loop keeps of a page
ExpenseItems(items) ==
  [k \in 1..Len(items) |->
     [id |-> items[k].id, amount |-> items[k].amount, category |-> items[k].category]]
ExpensePage(pageSize, offset) ==
  NoFilter @@ [tx_type |-> "expense", limit |-> pageSize, offset |-> offset,
               sort_by |-> "id", sort_dir |-> "asc"]
\* (res as any).total ?? items.length
\* variant: the reported total is not looked at
TotalOrLengthOfPage(res, missing) == Len(res.items)
TotalOrLength(res, missing) == IF missing THEN Len(res.items) ELSE res.total

\* the loop, with the number of requests it made; missing says that the
\* results carry no total
RECURSIVE ExpenseLoop(_, _, _, _, _, _)
\* all.push(...items); offset += pageSize; if (offset >= total) break
LoopNext(d, pageSize, offset, all, requests, missing, res) ==
  IF offset + pageSize >= TotalOrLength(res, missing)
  THEN [all |-> all \o ExpenseItems(res.items), requests |-> requests + 1]
  ELSE ExpenseLoop(d, pageSize, offset + pageSize, all \o ExpenseItems(res.items),
                   requests + 1, missing)
ExpenseLoop(d, pageSize, offset, all, requests, missing) ==
  LoopNext(d, pageSize, offset, all, requests, missing,
           search_transactions(d, ExpensePage(pageSize, offset)))
\* the list the loop collects when the results carry their total
FetchExpenses(d, pageSize, offset, all) ==
  ExpenseLoop(d, pageSize, offset, all, 0, FALSE).all

\* the loop is run with small pages, so that it takes more than one
StatsPageSizes == 1..MaxPageSize
LoadExpenses ==
  \E pageSize \in StatsPageSizes :
    /\ calc = NoCalc
    /\ calc' = [fn |-> "txCatItems", arg |-> pageSize, out |-> FetchExpenses(db, pageSize, 0, <<>>)]
    /\ UNCHANGED <<db, page, home, form, pending, sub, accPage, catPage, txPage, dels, catHook>>

\* the same loop, keeping the number of requests
CountExpenseRequests ==
  \E pageSize \in StatsPageSizes, missing \in BOOLEAN :
    /\ calc = NoCalc
    /\ calc' = [fn |-> "expenseLoop", arg |-> [pageSize |-> pageSize, missing |-> missing],
                out |-> ExpenseLoop(db, pageSize, 0, <<>>, 0, missing)]
    /\ UNCHANGED <<db, page, home, form, pending, sub, accPage, catPage, txPage, dels, catHook>>

\* Stats: the net of the current month is read off a page of one row
FirstOfMonth == <<"2", "0", "2", "4", "-", "0", "1", "-", "0", "1">>
MonthNetQuery ==
  [query |-> <<>>, account_id |-> NoId, date_from |-> FirstOfMonth, date_to |-> Today,
   tx_type |-> "all", limit |-> 1, offset |-> 0, sort_by |-> "date", sort_dir |-> "asc"]
LoadMonthNet ==
  /\ calc = NoCalc
  /\ LET res == search_transactions(db, MonthNetQuery)
     IN calc' = [fn |-> "monthNet", arg |-> MonthNetQuery, out |-> res.sum_income + res.sum_expense]
  /\ UNCHANGED <<db, page, home, form, pending, sub, accPage, catPage, txPage, dels, catHook>>

\* a ledger of up to MaxRows rows, then one call
InitSearch == \E n \in 0..MaxRows : InitWith(LedgerOf(n))
NextSearch ==
  \/ Search
  \/ LoadExpenses
  \/ LoadMonthNet
  \/ CountExpenseRequests
SpecSearch == InitSearch /\ [][NextSearch]_vars

Searched == calc.fn = "search_transactions"
ItemIds(items) == [k \in 1..Len(items) |-> items[k].id]
IdSet(items) == {items[k].id : k \in 1..Len(items)}

SearchAt(offset) == search_transactions(db, [calc.arg EXCEPT !.offset = offset])

SearchOrderIsTotal ==
  /\ Searched =>
       LET q == calc.arg
           items == calc.out.items
       IN \A k, l \in 1..Len(items) :
            k < l =>
              LET a == items[k].id
                  b == items[l].id
              IN /\ q.sort_dir = "asc" => ~KeyLess(db, q, b, a)
                 /\ q.sort_dir = "desc" => ~KeyLess(db, q, a, b)
                 /\ (~KeyLess(db, q, a, b) /\ ~KeyLess(db, q, b, a)) => a < b
  /\ (Searched /\ calc.arg.offset = 0) =>
       LET q == calc.arg
           pageAt == [n \in 0..MaxRows |-> ItemIds(SearchAt(n * q.limit).items)]
       IN /\ \A i \in Matching(db, q) :
               Cardinality({<<n, k>> \in (0..MaxRows) \X (1..q.limit) :
                              k <= Len(pageAt[n]) /\ pageAt[n][k] = i}) = 1
          /\ \A n \in 0..MaxRows : IdSet(SearchAt(n * q.limit).items) \subseteq Matching(db, q)
  /\ calc.fn = "txCatItems" =>
       LET expenses == {i \in DOMAIN db.transactions : db.transactions[i].amount < 0}
       IN /\ Len(calc.out) = Cardinality(expenses)
          /\ IdSet(calc.out) = expenses
          /\ \A k, l \in 1..Len(calc.out) : k < l => calc.out[k].id < calc.out[l].id

\* a page whose first two rows have the same date, with more pages to come
TiedRowsOnAPage ==
  /\ Searched /\ calc.arg.sort_by = "date" /\ calc.arg.offset = 0
  /\ calc.out.total > calc.arg.limit
  /\ Len(calc.out.items) = 2
  /\ calc.out.items[1].date = calc.out.items[2].date
  /\ calc.out.items[1].id < calc.out.items[2].id

(* ------------------------ creating an account ------------------------- *)
\* the balance texts typed into the dialog: none, a lone sign, zero, and an
\* amount with either sign
BalanceTexts == { <<>>, <<"-">>, <<"0">>, <<"2">>, <<"-", "2">> }

\* initialBalanceStr.trim() === '' ? 0 : parsedInit
\* variant: the typed balance is left out of the input
OpeningValueLeftOut(initialBalanceStr) ==
  IF parseAmountString(initialBalanceStr) = None /\ Trim(initialBalanceStr) # <<>> THEN None
  ELSE Some(0)
OpeningValue(initialBalanceStr) ==
  IF Trim(initialBalanceStr) = <<>> THEN Some(0) ELSE parseAmountString(initialBalanceStr)

\* CreateAccountDialog.submit and Accounts.handleCreate, keeping what was
\* typed and the id of the account
CreateRecorded ==
  \E a \in AccountInputs, initialBalanceStr \in BalanceTexts :
    LET value == OpeningValue(initialBalanceStr)
        d == add_account(db, [name |-> Trim(a.name), account_type |-> a.type,
                              initial_balance |-> value[1]])
    IN /\ page = "accounts"
       /\ accPage.confirmId = NoId /\ accPage.errorMsg = None
       /\ Trim(a.name) # <<>>
       /\ value # None
       /\ WithinBounds(d)
       /\ db' = d
       /\ accPage' = [accPage EXCEPT !.items = list_accounts(d)]
       /\ calc' = [fn |-> "add_account",
                   arg |-> [name |-> a.name, account_type |-> a.type,
                            initialBalanceStr |-> initialBalanceStr],
                   out |-> db.seq.acc]
       /\ UNCHANGED <<page, home, form, pending, sub, catPage, txPage, dels, catHook>>

\* the Accounts page on a fresh store, and Home's list to delete rows from
NextCreate ==
  \/ CreateRecorded
  \/ \E id \in 1..MaxAccounts : requestDelete(id)
  \/ onConfirmDeleteAccount
  \/ onCancelDeleteAccount
  \/ dismissAccountError
  \/ \E id \in 1..MaxTx : requestDeleteTx(id)
  \/ confirmDeleteTx
  \/ cancelDeleteTx
  \/ \E p \in {"home", "accounts"} : Navigate(p)
SpecCreate == Init /\ [][NextCreate]_vars

RECURSIVE TotalOverUnsigned(_, _)
RECURSIVE TotalOver(_, _)
RECURSIVE OwedOver(_, _)

\* accounts.reduce((sum, a) => sum + (a.type === 'reimbursable' ? -v : v), 0)
\* variant: every balance counts as it is
TotalOverUnsigned(accounts, ids) ==
  IF ids = {} THEN 0
  ELSE LET a == CHOOSE x \in ids : TRUE
       IN accounts[a].balance + TotalOverUnsigned(accounts, ids \ {a})
TotalOver(accounts, ids) ==
  IF ids = {} THEN 0
  ELSE LET a == CHOOSE x \in ids : TRUE
       IN (IF accounts[a].type = "reimbursable" THEN 0 - accounts[a].balance
           ELSE accounts[a].balance) + TotalOver(accounts, ids \ {a})

\* 'Total value'
totalBalance(accounts) == TotalOver(accounts, DOMAIN accounts)

\* filter(a => a.type === 'reimbursable')
\*   .reduce((sum, a) => sum + (a.balance < 0 ? -a.balance : 0), 0)
OwedOver(accounts, ids) ==
  IF ids = {} THEN 0
  ELSE LET a == CHOOSE x \in ids : TRUE
       IN (IF accounts[a].balance < 0 THEN 0 - accounts[a].balance ELSE 0)
            + OwedOver(accounts, ids \ {a})

\* 'To be reimbursed'
toBeReimbursed(accounts) ==
  OwedOver(accounts, {a \in DOMAIN accounts : accounts[a].type = "reimbursable"})

\* the sum of the positive ledger balances of the reimbursable accounts
RECURSIVE PositiveBalances(_)
PositiveBalances(ids) ==
  IF ids = {} THEN 0
  ELSE LET a == CHOOSE x \in ids : TRUE
       IN (IF balance(db, a) > 0 THEN balance(db, a) ELSE 0) + PositiveBalances(ids \ {a})

\* C21: the 'To be reimbursed' figure Home shows is the sum, over the
\* reimbursable accounts, of their positive ledger balances.
OwedIsPositiveBalance ==
  page = "home" =>
    toBeReimbursed(home.accounts) =
      PositiveBalances({a \in DOMAIN db.accounts : db.accounts[a].type = "reimbursable"})

\* the ledger without the rows of the last submit
BeforeLastSubmit ==
  [db EXCEPT !.transactions =
     [i \in DOMAIN db.transactions \ {sub.written[k].id : k \in 1..Len(sub.written)}
        |-> db.transactions[i]]]
MirroredDone ==
  /\ sub.status = "done" /\ sub.txType \in {"income", "expense"}
  /\ sub.rows = 2 /\ Len(sub.written) = 2
  /\ db.accounts[sub.account].type = "standard"
  /\ db.accounts[sub.other].type = "reimbursable"

\* C29: when an income or expense on a standard account and its mirror on a
\* reimbursable account are both written, the 'Total value' Home shows is the
\* one of the ledger without the two rows.
MirrorKeepsTotalValue ==
  MirroredDone =>
    /\ totalBalance(home.accounts) = totalBalance(list_accounts(BeforeLastSubmit))
    /\ sub.written[1].amount = sub.written[2].amount
    /\ sub.written[1].account_id = sub.account /\ sub.written[2].account_id = sub.other

\* an expense of 2 and its mirror are written: both balances fell by 2
MirroredExpenseDone ==
  /\ MirroredDone /\ sub.txType = "expense"
  /\ sub.written[1].amount = 0 - 2 * Scale
  /\ home.accounts[sub.account].balance = balance(BeforeLastSubmit, sub.account) - 2 * Scale
  /\ home.accounts[sub.other].balance = balance(BeforeLastSubmit, sub.other) - 2 * Scale

\* C27: a save whose amount text is empty, blank or no decimal number sends
\* a patch without an amount, and the stored amount stays the row's.
UnparsedAmountKept ==
  (calc.fn = "save" /\ parseAmountString(calc.arg.typed.amountStr) = None) =>
    /\ ~Has(calc.out.patch, "amount")
    /\ calc.out.stored.amount = calc.arg.row.amount

CeilDiv(a, b) == (a + b - 1) \div b

MaxPresses == 2

\* the trash icon opens the dialog; the count of this opening starts at zero
OpenConfirm(id) ==
  /\ page = "home" /\ home.confirmTxId = NoId
  /\ id \in {t.id : t \in home.tx}
  /\ home' = [home EXCEPT !.confirmTxId = id]
  /\ dels' = [dels EXCEPT !.calls = 0, !.cancelled = FALSE]
  /\ UNCHANGED <<db, page, form, pending, sub, accPage, catPage, calc, txPage, catHook>>

\* Enter, NumpadEnter or the confirm button while the dialog is open:
\* confirmDeleteTx runs up to its first await, deleteTransaction is invoked
\* with the id the dialog shows, the dialog stays open
PressConfirm ==
  /\ page = "home" /\ home.confirmTxId # NoId
  /\ dels.calls < MaxPresses /\ Len(dels.inflight) < MaxPresses
  /\ dels' = [dels EXCEPT !.calls = @ + 1, !.inflight = Append(@, home.confirmTxId)]
  /\ UNCHANGED <<db, page, home, form, pending, sub, accPage, catPage, calc, txPage, catHook>>

\* a deleteTransaction call returns: the row is gone, confirmDeleteTx closes
\* the dialog and refreshes the lists
DeleteReturns ==
  /\ page = "home" /\ dels.inflight # <<>>
  /\ db' = delete_transaction(db, Head(dels.inflight))
  /\ home' = refresh(db', [home EXCEPT !.confirmTxId = NoId])
  /\ dels' = [dels EXCEPT !.inflight = Tail(@)]
  /\ UNCHANGED <<page, form, pending, sub, accPage, catPage, calc, txPage, catHook>>

\* Escape, the backdrop or the cancel button: the dialog closes, its key
\* handlers are removed
CancelConfirm ==
  /\ page = "home" /\ home.confirmTxId # NoId
  /\ home' = [home EXCEPT !.confirmTxId = NoId]
  /\ dels' = [dels EXCEPT !.cancelled = TRUE]
  /\ UNCHANGED <<db, page, form, pending, sub, accPage, catPage, calc, txPage, catHook>>

\* Home over a ledger of one to MaxRows rows
InitConfirm == \E n \in 1..MaxRows : InitWith(LedgerOf(n))
NextConfirm ==
  \/ \E id \in 1..MaxRows : OpenConfirm(id)
  \/ PressConfirm
  \/ DeleteReturns
  \/ CancelConfirm
SpecConfirm == InitConfirm /\ [][NextConfirm]_vars

\* C30: one opening of the delete dialog invokes deleteTransaction at most
\* once, however often the confirm key is pressed before the dialog closes,
\* and not at all once it was cancelled.
OneDeletePerConfirmation == dels.calls <= 1

(* --------------------------- Transactions page ------------------------ *)
\* how many searches the page starts, and how many exports run at a time
MaxRequests == 3
MaxExports == 1

\* useSearch: the filters the page mounts with; the page size is drawn from
\* 1..MaxPageSize so that a ledger of a few rows has several pages
InitialFilters(limit) ==
  [limit |-> limit, offset |-> -1, tx_type |-> "all", account_id |-> NoId,
   date_from |-> <<>>, date_to |-> <<>>, sort_by |-> "date", sort_dir |-> "asc"]

\* the result the page shows before the first response
EmptyResult == [items |-> <<>>, total |-> 0, offset |-> 0, sum_income |-> 0, sum_expense |-> 0]

\* update of useSearch: the patch is merged; a patch that names a core filter
\* or sort field sets the offset to 0
CoreFields == {"date_from", "date_to", "account_id", "tx_type", "sort_by", "sort_dir"}
update(prev, patch) ==
  LET next == patch @@ prev
  IN IF DOMAIN patch \cap CoreFields # {} THEN [next EXCEPT !.offset = 0] ELSE next

\* the payload of a search: the filters but for tx_type, which is the page's
\* own type state, and the trimmed query
Payload(t) ==
  [limit |-> t.filters.limit, offset |-> t.filters.offset,
   sort_by |-> t.filters.sort_by, sort_dir |-> t.filters.sort_dir,
   account_id |-> t.filters.account_id,
   date_from |-> t.filters.date_from, date_to |-> t.filters.date_to,
   query |-> Trim(t.query), tx_type |-> t.type]

\* the main fetch effect: it runs when one of its dependencies changed, takes
\* the next sequence number, sets loading and sends the search
FetchEffect(t, t2, cause) ==
  IF Payload(t2) = Payload(t) THEN t2
  ELSE [t2 EXCEPT !.reqSeq = @ + 1,
                  !.loading = TRUE,
                  !.requests = @ \cup {[seq |-> t2.reqSeq + 1, kind |-> "fetch",
                                        payload |-> Payload(t2), cause |-> cause]}]

\* the page as mounted: the effect has run once
TxMounted(limit) ==
  [mounted |-> TRUE,
   filters |-> InitialFilters(limit), type |-> "all", query |-> <<>>,
   loading |-> TRUE, data |-> EmptyResult, confirmTxId |-> NoId,
   reqSeq |-> 1,
   requests |-> {[seq |-> 1, kind |-> "fetch",
                  payload |-> Payload([filters |-> InitialFilters(limit), type |-> "all", query |-> <<>>]),
                  cause |-> "mount"]},
   deleting |-> <<>>, exports |-> 0,
   dataSeq |-> 0, dataAt |-> 0, dropped |-> FALSE]

\* a state change of the page followed by its render
TxChange(t2, cause) ==
  /\ page = "transactions" /\ txPage.mounted
  /\ txPage.reqSeq < MaxRequests
  /\ txPage' = FetchEffect(txPage, t2, cause)
  /\ UNCHANGED <<db, page, home, form, pending, sub, accPage, catPage, calc, dels, catHook>>

\* the account select
ChangeAccount(v) ==
  TxChange([txPage EXCEPT !.filters = update(@, [account_id |-> v])], "account")
\* the type select sets the page's type state
ChangeType(v) ==
  TxChange([txPage EXCEPT !.type = v], "type")
\* the search box, debounced
ChangeQuery(text) ==
  TxChange([txPage EXCEPT !.query = text], "query")
\* handleTimeSpanChange: 'all' clears the bounds and asks for the last page,
\* 'this_month' goes through update
handleTimeSpanChange(v) ==
  IF v = "all"
  THEN TxChange([txPage EXCEPT !.filters = [@ EXCEPT !.date_from = <<>>, !.date_to = <<>>, !.offset = -1]], "all")
  ELSE TxChange([txPage EXCEPT !.filters = update(@, [date_from |-> FirstOfMonth, date_to |-> Today])], "date")
\* handleHeaderSort: the same column toggles the direction, another starts
\* ascending; the offset is set to 0
handleHeaderSort(by) ==
  LET prev == txPage.filters
      nextDir == IF prev.sort_by = by THEN (IF prev.sort_dir = "asc" THEN "desc" ELSE "asc") ELSE "asc"
  IN TxChange([txPage EXCEPT !.filters = [prev EXCEPT !.sort_by = by, !.sort_dir = nextDir, !.offset = 0]], "sort")
\* Prev and Next, disabled while loading and at the ends of the result
PrevPage ==
  /\ txPage.mounted /\ ~(txPage.data.offset <= 0 \/ txPage.loading)
  /\ TxChange([txPage EXCEPT !.filters.offset = Max(0, txPage.data.offset - txPage.filters.limit)], "page")
NextPage ==
  /\ txPage.mounted
  /\ ~(txPage.data.offset + txPage.filters.limit >= txPage.data.total \/ txPage.loading)
  /\ TxChange([txPage EXCEPT !.filters.offset = txPage.data.offset + txPage.filters.limit], "page")

\* the steps that start no search
TxQuiet(t2) ==
  /\ page = "transactions" /\ txPage.mounted
  /\ txPage' = t2
  /\ UNCHANGED <<db, page, home, form, pending, sub, accPage, catPage, calc, dels, catHook>>

\* requestDeleteTx and the dialog's cancel
RequestDeleteOnPage(id) ==
  /\ txPage.mounted /\ txPage.confirmTxId = NoId
  /\ id \in IdSet(txPage.data.items)
  /\ TxQuiet([txPage EXCEPT !.confirmTxId = id])
CancelDeleteOnPage ==
  /\ txPage.mounted /\ txPage.confirmTxId # NoId
  /\ TxQuiet([txPage EXCEPT !.confirmTxId = NoId])
\* confirmDeleteTx up to its first await: the dialog closes, deleteTransaction
\* is sent; the refresh that follows is the one of this render
ConfirmDeleteOnPage ==
  /\ txPage.mounted /\ txPage.confirmTxId # NoId
  /\ txPage.reqSeq + Len(txPage.deleting) < MaxRequests
  /\ TxQuiet([txPage EXCEPT !.confirmTxId = NoId,
                            !.deleting = Append(@, [id |-> txPage.confirmTxId, payload |-> Payload(txPage)])])

\* handleExport and its end, which sets loading to false on either outcome
handleExport ==
  /\ txPage.mounted /\ ~txPage.loading /\ txPage.exports < MaxExports
  /\ TxQuiet([txPage EXCEPT !.loading = TRUE, !.exports = @ + 1])
ExportEnds ==
  /\ txPage.mounted /\ txPage.exports > 0
  /\ TxQuiet([txPage EXCEPT !.loading = FALSE, !.exports = @ - 1])

\* deleteTransaction returned: the row is gone and refresh takes the next
\* sequence number, sets loading and sends its search
DeleteDoneOnPage ==
  /\ page = "transactions" /\ txPage.mounted /\ txPage.deleting # <<>>
  /\ LET d == Head(txPage.deleting) IN
     /\ db' = delete_transaction(db, d.id)
     /\ txPage' = [txPage EXCEPT !.deleting = Tail(@),
                                 !.reqSeq = @ + 1,
                                 !.loading = TRUE,
                                 !.requests = @ \cup {[seq |-> txPage.reqSeq + 1, kind |-> "refresh",
                                                       payload |-> d.payload, cause |-> "delete"]}]
  /\ UNCHANGED <<page, home, form, pending, sub, accPage, catPage, calc, dels, catHook>>
\* deleteTransaction rejected: confirmDeleteTx ends before its refresh
DeleteFailsOnPage ==
  /\ txPage.mounted /\ txPage.deleting # <<>>
  /\ TxQuiet([txPage EXCEPT !.deleting = Tail(@)])

\* every response replaces the data
IsCurrentAlways(mySeq, current) == TRUE
\* the test on the sequence number: a response is taken when no search was
\* started after its request
IsCurrent(mySeq, current) == mySeq = current

\* the page after setData(res) for the request r
WithData(t, r, res) ==
  [t EXCEPT !.data = res, !.dataSeq = r.seq, !.dataAt = t.reqSeq]

\* the search of request r resolved with res
Resolved(t, r, res) ==
  LET t1 == [t EXCEPT !.requests = @ \ {r}]
  IN IF r.kind = "fetch"
     THEN LET t2 == IF IsCurrent(r.seq, t.reqSeq) THEN WithData(t1, r, res)
                    ELSE [t1 EXCEPT !.dropped = TRUE]
          IN IF r.seq = t.reqSeq THEN [t2 EXCEPT !.loading = FALSE] ELSE t2
     ELSE IF IsCurrent(r.seq, t.reqSeq)
          THEN [WithData(t1, r, res) EXCEPT !.loading = FALSE]
          ELSE [t1 EXCEPT !.dropped = TRUE]
\* the search of request r rejected: the effect logs and clears loading for
\* the current request, refresh throws at its await
Rejected(t, r) ==
  LET t1 == [t EXCEPT !.requests = @ \ {r}]
  IN IF r.kind = "fetch" /\ r.seq = t.reqSeq THEN [t1 EXCEPT !.loading = FALSE] ELSE t1

SearchResolves ==
  /\ txPage.mounted
  /\ \E r \in txPage.requests : TxQuiet(Resolved(txPage, r, search_transactions(db, r.payload)))
SearchRejects ==
  /\ txPage.mounted
  /\ \E r \in txPage.requests : TxQuiet(Rejected(txPage, r))

\* page and totalPages as the pager shows them
PageNumber(t) == (t.data.offset \div t.filters.limit) + 1
totalPages(t) == Max(1, CeilDiv(t.data.total, t.filters.limit))

\* what the user picks on the page
PageAccounts == {NoId, 1}
PageQueries == {<<"f">>}
HeaderKeys == {"amount"}
TimeSpans == {"all", "this_month"}

InitTx ==
  \E limit \in 1..MaxPageSize :
    /\ db = LedgerOf(MaxRows - 1)
    /\ page = "transactions"
    /\ home = HomeUnmounted
    /\ form = [busy |-> FALSE, showErrors |-> FALSE]
    /\ pending = <<>>
    /\ sub = NoSubmit
    /\ accPage = AccountsUnmounted
    /\ catPage = CategoriesUnmounted
    /\ calc = NoCalc
    /\ txPage = TxMounted(limit)
    /\ dels = NoDeletes
    /\ catHook = CatsUnmounted
NextTx ==
  \/ \E v \in PageAccounts : ChangeAccount(v)
  \/ \E v \in TxTypeFilters : ChangeType(v)
  \/ \E text \in PageQueries : ChangeQuery(text)
  \/ \E v \in TimeSpans : handleTimeSpanChange(v)
  \/ \E by \in HeaderKeys : handleHeaderSort(by)
  \/ PrevPage
  \/ NextPage
  \/ \E id \in 1..MaxRows : RequestDeleteOnPage(id)
  \/ CancelDeleteOnPage
  \/ ConfirmDeleteOnPage
  \/ DeleteDoneOnPage
  \/ DeleteFailsOnPage
  \/ handleExport
  \/ ExportEnds
  \/ SearchResolves
  \/ SearchRejects
SpecTx == InitTx /\ [][NextTx]_vars

\* the searches of the page racing: the type switched between all rows and
\* the expenses, the pager and the refresh after a delete
RaceTypes == {"all", "expense"}
NextRace ==
  \/ \E v \in RaceTypes : ChangeType(v)
  \/ PrevPage
  \/ NextPage
  \/ \E id \in 1..MaxRows : RequestDeleteOnPage(id)
  \/ ConfirmDeleteOnPage
  \/ DeleteDoneOnPage
  \/ SearchResolves
  \/ SearchRejects
SpecRace == InitTx /\ [][NextRace]_vars

\* C22: overlapping searches of the Transactions page do not race: whenever
\* the shown data were replaced, they were replaced by the response to the
\* search started last, whether the fetch effect or refresh sent it.
DataFromLatestRequest ==
  txPage.mounted =>
    /\ txPage.dataSeq = txPage.dataAt
    /\ txPage.dataSeq <= txPage.reqSeq

\* the response to an overtaken search arrived and was dropped, and the page
\* shows the response to the search started last
StaleResponseDropped ==
  /\ txPage.mounted /\ txPage.dropped
  /\ txPage.requests = {}
  /\ txPage.reqSeq > 1 /\ txPage.dataSeq = txPage.reqSeq

\* the changes the contract calls core: a date range other than 'All time',
\* the account, the type restriction, the sort key and direction
CoreCauses == {"date", "account", "type", "sort"}

\* C23: the search that follows the change of a core filter or sort field is
\* sent with offset 0.
CoreChangeSearchesFromStart ==
  txPage.mounted =>
    \A r \in txPage.requests : r.cause \in CoreCauses => r.payload.offset = 0

\* C25: once every request the page started has completed, with a result or
\* an error, the loading flag is false.
LoadingEndsWithRequests ==
  txPage.mounted /\ txPage.requests = {} /\ txPage.deleting = <<>> /\ txPage.exports = 0
    => ~txPage.loading

\* C26: the page number shown never exceeds the number of pages.
PageWithinPages ==
  txPage.mounted => PageNumber(txPage) <= totalPages(txPage)

(* ------------------- the category suggestions, step by step ----------- *)
\* the hook as mounted: nothing held, the initial refresh under way
CatsMounted ==
  [mounted |-> TRUE, categories |-> {}, started |-> 1, heldSeq |-> 0,
   requests |-> {[seq |-> 1, rows |-> None]}, unannounced |-> 0]

\* rows.map(r => r.name)
RowNames(rows) == {rows[i] : i \in DOMAIN rows}

\* the backend answers a list_categories call from the store as it is then
ServeCategories ==
  /\ catHook.mounted
  /\ \E r \in catHook.requests :
       /\ r.rows = None
       /\ catHook' = [catHook EXCEPT !.requests = (@ \ {r}) \cup {[r EXCEPT !.rows = Some(list_categories(db))]}]
  /\ UNCHANGED <<db, page, home, form, pending, sub, accPage, catPage, calc, txPage, dels>>

\* a response reaches the hook: setCategories with its names
DeliverCategories ==
  /\ catHook.mounted
  /\ \E r \in catHook.requests :
       /\ r.rows # None
       /\ catHook' = [catHook EXCEPT !.requests = @ \ {r},
                                     !.categories = RowNames(r.rows[1]),
                                     !.heldSeq = r.seq]
  /\ UNCHANGED <<db, page, home, form, pending, sub, accPage, catPage, calc, txPage, dels>>

\* Home with the add form and one category picker, on the two accounts
InitSuggest ==
  /\ db = TwoAccountsDb
  /\ page = "home"
  /\ home = refresh(TwoAccountsDb, HomeUnmounted)
  /\ form = [busy |-> FALSE, showErrors |-> FALSE]
  /\ pending = <<>>
  /\ sub = NoSubmit
  /\ accPage = AccountsUnmounted
  /\ catPage = CategoriesUnmounted
  /\ calc = NoCalc
  /\ txPage = TxUnmounted
  /\ dels = NoDeletes
  /\ catHook = CatsMounted
NextSuggest ==
  \/ SubmitMovementPlain
  \/ OnAddOk
  \/ OnAddFail
  \/ ServeCategories
  \/ DeliverCategories
SpecSuggest == InitSuggest /\ [][NextSuggest]_vars

\* once no list_categories call is under way the hook holds the response to
\* the refresh started last
HoldsLatestResponse ==
  catHook.mounted /\ catHook.requests = {} => catHook.heldSeq = catHook.started
\* once the submit has ended every row it wrote was followed by an
\* invalidation
WritesAnnounced ==
  catHook.mounted /\ ~form.busy => catHook.unannounced = 0

\* C28: the category suggestions converge: once every list_categories call
\* has completed the consumer holds the response to the refresh started
\* last, and every transaction write that reached the ledger is followed by
\* an invalidation.
SuggestionsConverge == HoldsLatestResponse /\ WritesAnnounced

====
